---- MODULE Spec2Model ----
(***************************************************************************)
(* Model of the icon-resolution cache of ChatForge                         *)
(* (src/app/core/icon_cache.py): IconCache with its memory LRU, its disk    *)
(* store, its negative cache, its in-flight set, the QThreadPool running    *)
(* _IconDownloadTask jobs, and the queued signal connections that carry a   *)
(* job's result back to the thread that owns the IconCache.                 *)
(***************************************************************************)
EXTENDS Integers, Sequences, FiniteSets, Bags, TLC

(* ------------------------------ bounds -------------------------------- *)

\* IconCache(max_items=...): capacity of the memory cache in the model
max_items == 2
\* IconCache(max_workers=...): size of the thread pool in the model
max_workers == 1
\* total number of download tasks ever handed to the pool
MaxJobs == 2
\* number of clock advances
MaxTicks == 2
\* number of calls of _store_to_disk and _load_from_disk in which a file
\* operation raises OSError
MaxIoFaults == 1

\* number of DM and guild entries in one conversation load
MaxEntries == 2
\* length of the id and discriminator strings enumerated over the alphabet
MaxStrLen == 2
\* number of times a caller repeats one resolver call
MaxCalls == 2

\* the signals of the workers that wait in the event queue of the window
MaxSignals == 2

\* the guilds get_guilds returns, and the channels of one guild
MaxGuilds == 2

MaxChannels == 2

\* the sizes the placeholder constructors are called with, next to the default
MaxSize == 3

(* ------------------------- program constants -------------------------- *)

DEFAULT_ICON_SIZE == 18
RETRY_COOLDOWN_SECONDS == 300

CDN_BASE == "https://cdn.discordapp.com"

(* --------------------------- keys and urls ---------------------------- *)

\* the value None where the code has a str or None
PyNone == "None"

\* Python truth of a str-or-None value: None and the empty string are false
Falsy(s) == s \in {PyNone, ""}

\* dict.get(key, default)
Get(dict, key, default) == IF key \in DOMAIN dict THEN dict[key] ELSE default

\* the sort key: c.get("position", 0)
PositionOf(c) == Get(c, "position", 0)

\* sorted(channels, key=lambda c: c.get("position", 0)): stable
RECURSIVE sorted_by_position(_)
sorted_by_position(channels) ==
    IF channels = <<>> THEN <<>>
    ELSE LET init == sorted_by_position(SubSeq(channels, 1, Len(channels) - 1))
             c == channels[Len(channels)]
         IN SelectSeq(init, LAMBDA x : PositionOf(x) <= PositionOf(c))
            \o <<c>>
            \o SelectSeq(init, LAMBDA x : PositionOf(x) > PositionOf(c))

\* the characters of the names of categories and channels, in the order of
\* their code points
CharOrder ==
    " #-0123456789ABCDEFGHIJKLMNOPQRSTUVWXYZ_abcdefghijklmnopqrstuvwxyz"

RECURSIVE StrLess(_, _)
\* a < b for two str: by the code points of the first characters that
\* differ, a proper prefix before the longer string
StrLess(a, b) ==
    IF b = "" THEN FALSE
    ELSE IF a = "" THEN TRUE
    ELSE LET ord(s) == CHOOSE i \in 1..Len(CharOrder) :
                          SubSeq(CharOrder, i, i) = SubSeq(s, 1, 1)
         IN IF ord(a) # ord(b) THEN ord(a) < ord(b)
            ELSE StrLess(SubSeq(a, 2, Len(a)), SubSeq(b, 2, Len(b)))

\* x <= c for the sort key (c.get("position", 0), c.get("name", "")) of
\* the tree, for entries whose positions are int and whose names are str
KeyLessEq(x, c) ==
    \/ PositionOf(x) < PositionOf(c)
    \/ /\ PositionOf(x) = PositionOf(c)
       /\ ~StrLess(Get(c, "name", ""), Get(x, "name", ""))

\* sorted(channels, key=lambda c: (c.get("position", 0), c.get("name", ""))):
\* stable
RECURSIVE sorted_by_position_name(_)
sorted_by_position_name(channels) ==
    IF channels = <<>> THEN <<>>
    ELSE LET init == sorted_by_position_name(
                         SubSeq(channels, 1, Len(channels) - 1))
             c == channels[Len(channels)]
         IN SelectSeq(init, LAMBDA x : KeyLessEq(x, c))
            \o <<c>>
            \o SelectSeq(init, LAMBDA x : ~KeyLessEq(x, c))

\* build_dm_avatar_url, with the default size
build_dm_avatar_url(user_id, avatar_hash) ==
    CDN_BASE \o "/avatars/" \o user_id \o "/" \o avatar_hash \o ".png?size=64"

\* build_guild_icon_url, with the default size
build_guild_icon_url(guild_id, icon_hash) ==
    CDN_BASE \o "/icons/" \o guild_id \o "/" \o icon_hash \o ".png?size=64"

\* build_default_avatar_url, with the default size
build_default_avatar_url(index) ==
    CDN_BASE \o "/embed/avatars/" \o ToString(index % 6) \o ".png?size=64"

(* ------------------------- default avatar index ----------------------- *)

Digits == {"0", "1", "2", "3", "4", "5", "6", "7", "8", "9"}

DigitValue(c) ==
    CASE c = "1" -> 1 [] c = "2" -> 2 [] c = "3" -> 3 [] c = "4" -> 4
      [] c = "5" -> 5 [] c = "6" -> 6 [] c = "7" -> 7 [] c = "8" -> 8
      [] c = "9" -> 9 [] OTHER -> 0

\* the whitespace int() skips around the number, as far as a string of
\* this module can hold it: blank, tab, line feed, form feed, carriage
\* return, vertical tab, next line (U+0085) and no-break space (U+00A0)
Whitespace == {" ", "\t", "\n", "\f", "\r", "", "", " "}

RECURSIVE LStrip(_)
\* int(): whitespace before the number is skipped
LStrip(s) == IF s # "" /\ Head(s) \in Whitespace THEN LStrip(Tail(s)) ELSE s

RECURSIVE RStrip(_)
\* int(): whitespace after the number is skipped
RStrip(s) ==
    IF s # "" /\ SubSeq(s, Len(s), Len(s)) \in Whitespace
    THEN RStrip(SubSeq(s, 1, Len(s) - 1))
    ELSE s

RECURSIVE DigitGroups(_)
\* int(): the digits of a decimal literal: at least one digit, single
\* underscores allowed between digits only
DigitGroups(s) ==
    IF s = "" THEN FALSE
    ELSE IF Head(s) \notin Digits THEN FALSE
    ELSE IF Tail(s) = "" THEN TRUE
    ELSE IF Head(Tail(s)) = "_" THEN DigitGroups(Tail(Tail(s)))
    ELSE DigitGroups(Tail(s))

\* int(s) for a string of ASCII digits, signs, underscores and the
\* whitespace above: ok is false where int raises ValueError
ParseInt(s) ==
    LET t == RStrip(LStrip(s))
        signed == t # "" /\ Head(t) \in {"+", "-"}
        body == IF signed THEN Tail(t) ELSE t
    IN [ok |-> DigitGroups(body),
        neg |-> signed /\ Head(t) = "-",
        digits |-> body]

RECURSIVE ModOfDigits(_, _, _)
\* the value of a run of digits modulo m, digit by digit (an id has 18
\* digits and more)
ModOfDigits(s, m, acc) ==
    IF s = "" THEN acc
    ELSE IF Head(s) = "_" THEN ModOfDigits(Tail(s), m, acc)
    ELSE ModOfDigits(Tail(s), m, (acc * 10 + DigitValue(Head(s))) % m)

\* int(s) % m, with Python's sign of the result (never negative)
IntMod(p, m) ==
    LET r == ModOfDigits(p.digits, m, 0)
    IN IF p.neg THEN (m - r) % m ELSE r

\* (int(s) >> 22) % 6: the shift rounds down, so it is the quotient by 2^22
\* of int(s) % (6 * 2^22)
ShiftedMod6(p) == IntMod(p, 6 * 2^22) \div 2^22

\* the legacy discriminators that stand for "no discriminator"
SentinelDiscriminators == {"0", "0000"}

\* default_avatar_index taking the discriminator modulo 6
default_avatar_index_mod6(user_id, discriminator) ==
    IF ~Falsy(discriminator) /\ discriminator \notin SentinelDiscriminators
    THEN IF ParseInt(discriminator).ok
         THEN IntMod(ParseInt(discriminator), 6)
         ELSE 0
    ELSE IF ~Falsy(user_id)
    THEN IF ParseInt(user_id).ok THEN ShiftedMod6(ParseInt(user_id)) ELSE 0
    ELSE 0

\* default_avatar_index going on to the user id when the discriminator does
\* not parse
default_avatar_index_falls_through(user_id, discriminator) ==
    IF /\ ~Falsy(discriminator)
       /\ discriminator \notin SentinelDiscriminators
       /\ ParseInt(discriminator).ok
    THEN IntMod(ParseInt(discriminator), 5)
    ELSE IF ~Falsy(user_id)
    THEN IF ParseInt(user_id).ok THEN ShiftedMod6(ParseInt(user_id)) ELSE 0
    ELSE 0

\* default_avatar_index
default_avatar_index(user_id, discriminator) ==
    IF ~Falsy(discriminator) /\ discriminator \notin SentinelDiscriminators
    THEN IF ParseInt(discriminator).ok
         THEN IntMod(ParseInt(discriminator), 5)
         ELSE 0
    ELSE IF ~Falsy(user_id)
    THEN IF ParseInt(user_id).ok THEN ShiftedMod6(ParseInt(user_id)) ELSE 0
    ELSE 0

(* ---------------------------- key resolvers --------------------------- *)

\* recipients[0] of a DM with no recipients: the empty dict
NoRecipient == [id |-> PyNone, avatar |-> PyNone, discriminator |-> PyNone]

\* a or b, for str-or-None values
Or(a, b) == IF Falsy(a) THEN b ELSE a

\* the user id, avatar hash and discriminator _resolve_dm_icon works with:
\* those of the DM entry, taken from the first recipient when the entry has
\* no user id
dm_fields(dm) ==
    LET first_recipient ==
            IF dm.recipients # <<>> THEN dm.recipients[1] ELSE NoRecipient
    IN IF Falsy(dm.icon_user_id)
       THEN [user_id |-> first_recipient.id,
             avatar_hash |-> Or(dm.icon_avatar, first_recipient.avatar),
             discriminator |-> Or(dm.icon_discriminator,
                                  first_recipient.discriminator)]
       ELSE [user_id |-> dm.icon_user_id,
             avatar_hash |-> dm.icon_avatar,
             discriminator |-> dm.icon_discriminator]

\* _resolve_dm_icon leaving the avatar hash out of the key
resolve_dm_icon_by_user(dm) ==
    LET f == dm_fields(dm) IN
    IF ~Falsy(f.user_id) /\ ~Falsy(f.avatar_hash)
    THEN <<"dm:" \o f.user_id,
           build_dm_avatar_url(f.user_id, f.avatar_hash)>>
    ELSE LET index == default_avatar_index(
                          IF Falsy(f.user_id) THEN PyNone ELSE f.user_id,
                          IF Falsy(f.discriminator) THEN PyNone
                          ELSE f.discriminator)
         IN <<"dm-default:" \o Or(f.user_id, "unknown") \o ":" \o ToString(index),
              build_default_avatar_url(index)>>

\* MainWindow._resolve_dm_icon: the pair (key, url)
resolve_dm_icon(dm) ==
    LET f == dm_fields(dm) IN
    IF ~Falsy(f.user_id) /\ ~Falsy(f.avatar_hash)
    THEN <<"dm:" \o f.user_id \o ":" \o f.avatar_hash,
           build_dm_avatar_url(f.user_id, f.avatar_hash)>>
    ELSE LET index == default_avatar_index(
                          IF Falsy(f.user_id) THEN PyNone ELSE f.user_id,
                          IF Falsy(f.discriminator) THEN PyNone
                          ELSE f.discriminator)
         IN <<"dm-default:" \o Or(f.user_id, "unknown") \o ":" \o ToString(index),
              build_default_avatar_url(index)>>

\* _resolve_guild_icon making a key from the guild id alone
resolve_guild_icon_id_only(guild) ==
    IF ~Falsy(guild.id)
    THEN <<"guild:" \o guild.id \o ":" \o guild.icon_hash,
           build_guild_icon_url(guild.id, guild.icon_hash)>>
    ELSE <<PyNone, PyNone>>

\* MainWindow._resolve_guild_icon: the pair (key, url), or (None, None)
resolve_guild_icon(guild) ==
    IF ~Falsy(guild.id) /\ ~Falsy(guild.icon_hash)
    THEN <<"guild:" \o guild.id \o ":" \o guild.icon_hash,
           build_guild_icon_url(guild.id, guild.icon_hash)>>
    ELSE <<PyNone, PyNone>>

(* ------------------------------ values -------------------------------- *)

\* the non-empty cache keys the callers use
Keys == {"dm:81:a1", "guild:7:b2", "dm-default:unknown:0"}

\* request_icon and get_icon also accept the empty key
KeyArgs == Keys \cup {""}

\* the url argument: None, or the CDN url built for the key
NoUrl == "None"

UrlOf(key) ==
    CASE key = "dm:81:a1" -> build_dm_avatar_url("81", "a1")
      [] key = "guild:7:b2" -> build_guild_icon_url("7", "b2")
      [] key = "dm-default:unknown:0" -> build_default_avatar_url(0)
      [] OTHER -> ""

UrlArgs(key) == {NoUrl, UrlOf(key)}

\* the image the CDN serves at the url of a key
ImageOf(key) ==
    CASE key = "dm:81:a1" -> "png:avatars/81/a1"
      [] key = "guild:7:b2" -> "png:icons/7/b2"
      [] key = "dm-default:unknown:0" -> "png:embed/avatars/0"
      [] OTHER -> ""

\* byte strings that decode as an image
ImagePayloads == {ImageOf(key) : key \in Keys}

\* the value None where the code returns an icon or None
NoneIcon == [pixmap |-> "None", size |-> 0]

\* seconds the clock advances in one step: half a cooldown, so that the second
\* step after a failure lands exactly on the deadline
TickSteps == {RETRY_COOLDOWN_SECONDS \div 2}

(* --------------------------- pure functions --------------------------- *)

\* hashlib.sha256(key.encode("utf-8")).hexdigest(), first eight hex digits
Sha256Hex(key) ==
    CASE key = "dm:81:a1" -> "662d75c5"
      [] key = "guild:7:b2" -> "8725d59c"
      [] key = "dm-default:unknown:0" -> "2602864a"
      [] OTHER -> "e3b0c442"

\* _cache_path: <disk_dir>/<digest>.img
cache_path(key) == <<Sha256Hex(key), "img">>

\* the temporary sibling of _store_to_disk: f"{path}.tmp"
tmp_path(key) == <<Sha256Hex(key), "img.tmp">>

\* _icon_from_bytes taking every non-empty payload for an image
icon_from_bytes_lenient(payload) ==
    IF payload # ""
    THEN [pixmap |-> payload, size |-> DEFAULT_ICON_SIZE]
    ELSE NoneIcon

\* _icon_from_bytes: QPixmap.loadFromData, then scaled to the display size
icon_from_bytes(payload) ==
    IF payload \in ImagePayloads
    THEN [pixmap |-> payload, size |-> DEFAULT_ICON_SIZE]
    ELSE NoneIcon

\* Python truth of an icon-or-None value
Truthy(icon) == icon # NoneIcon

(* ------------------------------- state -------------------------------- *)

VARIABLES
    memory,        \* _memory: sequence of [key, icon], least recently used first
    in_flight,     \* _in_flight: set of keys
    failed_until,  \* _failed_until: function key -> deadline
    disk,          \* files of the cache directory: function path -> bytes
    pool_queue,    \* tasks handed to the pool and not yet started
    running,       \* bag of the tasks a pool thread is running
    channel,       \* queued signal deliveries waiting in the owner's event loop
    died,          \* tasks whose run() ended without emitting a signal
    now,           \* time.time()
    submitted,     \* number of tasks handed to the pool so far
    ticks,         \* number of clock advances so far
    io_faults,     \* number of disk-store calls hit by an OSError so far
    touched,       \* history: the keys put or hit since construction, in the
                   \* order of their latest put or get_icon hit, oldest first
    last           \* history: the latest step that changed the state or
                   \* emitted icon_ready, and what it emitted, or the
                   \* on_connect of the window that came after it

VARIABLES
    icon_items,    \* MainWindow._icon_items: function key -> sequence of items
    item_icon,     \* the icon shown by each QTreeWidgetItem created since the
                   \* tree was last cleared: function item -> icon
    in_tree,       \* the items for which item.treeWidget() is the tree
    loading,       \* on_conversations_loaded: the entries still to go through
    resolver       \* a caller of the key resolvers: the function it calls, its
                   \* arguments, and the values returned so far

VARIABLES
    session,       \* MainWindow: the threads of _conversation_worker,
                   \* _export_worker and _batch_worker, _is_export_running,
                   \* the buttons, the checked items and the queued signals
    worker,        \* one ConversationWorker.run(): where it is, its client,
                   \* the entries built and the signals emitted so far
    placeholder    \* one call of a placeholder icon constructor: where it is
                   \* and what it has built

\* everything but the record of the last step
progvars == <<memory, in_flight, failed_until, disk, pool_queue, running,
              channel, died, now, submitted, ticks, io_faults, touched>>

vars == <<progvars, last>>

\* the state of the main window that the icons go through
winvars == <<icon_items, item_icon, in_tree, loading>>

\* the components beside the window's tree and its icon cache
restvars == <<resolver, session, worker, placeholder>>

allvars == <<vars, winvars, restvars>>

(* --------------------------- memory cache ----------------------------- *)

MemKeys(mem) == {mem[i].key : i \in 1..Len(mem)}

MemIndex(mem, key) == CHOOSE i \in 1..Len(mem) : mem[i].key = key

\* OrderedDict.get(key)
MemGet(mem, key) ==
    IF key \in MemKeys(mem) THEN mem[MemIndex(mem, key)].icon ELSE NoneIcon

MemWithout(mem, key) == SelectSeq(mem, LAMBDA e : e.key # key)

\* move_to_end leaving the order as it is
move_to_end_noop(mem, key) == mem

\* OrderedDict.move_to_end(key)
move_to_end(mem, key) ==
    Append(MemWithout(mem, key), mem[MemIndex(mem, key)])

\* popitem(last=True): the newest entry is dropped
popitem_newest(mem) == SubSeq(mem, 1, Len(mem) - 1)

\* one round of the while loop of _remember: popitem(last=False)
popitem(mem) == Tail(mem)

\* the while loop of _remember
RECURSIVE EvictOver(_)
EvictOver(mem) ==
    IF Len(mem) > max_items THEN EvictOver(popitem(mem)) ELSE mem

\* _remember
remember(mem, key, icon) ==
    LET set == IF key \in MemKeys(mem)
               THEN [i \in 1..Len(mem) |->
                        IF mem[i].key = key THEN [key |-> key, icon |-> icon]
                        ELSE mem[i]]
               ELSE Append(mem, [key |-> key, icon |-> icon])
    IN EvictOver(move_to_end(set, key))

(* ----------------------------- disk store ----------------------------- *)

Without(f, x) == [y \in DOMAIN f \ {x} |-> f[y]]

With(f, x, v) == [y \in DOMAIN f \cup {x} |-> IF y = x THEN v ELSE f[y]]

\* outcomes of the file operations of _store_to_disk: the step that raises
\* OSError (or none), and whether the removal of the temporary file succeeds
StoreOutcomes ==
    [fail_at : {"none", "open", "write", "replace"}, remove_ok : BOOLEAN]

\* the except branch of _store_to_disk
RemoveTmp(d, key, io) ==
    IF tmp_path(key) \in DOMAIN d /\ io.remove_ok
    THEN Without(d, tmp_path(key))
    ELSE d

\* _store_to_disk writing the payload straight into the target file
store_to_disk_in_place(d, key, payload, io) ==
    CASE io.fail_at = "open" -> d
      [] io.fail_at = "write" -> With(d, cache_path(key), "")
      [] OTHER -> With(d, cache_path(key), payload)

\* _store_to_disk without os.replace: the payload stays in the temporary file
store_to_disk_no_replace(d, key, payload, io) ==
    CASE io.fail_at = "open" -> RemoveTmp(d, key, io)
      [] io.fail_at = "write" -> RemoveTmp(With(d, tmp_path(key), ""), key, io)
      [] io.fail_at = "replace" ->
            RemoveTmp(With(d, tmp_path(key), payload), key, io)
      [] OTHER -> With(d, tmp_path(key), payload)

\* _store_to_disk
store_to_disk(d, key, payload, io) ==
    CASE io.fail_at = "open" -> RemoveTmp(d, key, io)
      [] io.fail_at = "write" -> RemoveTmp(With(d, tmp_path(key), ""), key, io)
      [] io.fail_at = "replace" ->
            RemoveTmp(With(d, tmp_path(key), payload), key, io)
      [] OTHER -> With(Without(d, tmp_path(key)), cache_path(key), payload)

\* the states of the cache directory during _store_to_disk, one after each
\* file operation: open(tmp, "wb"), write and close, os.replace, and the
\* removal of the temporary file in the except branch
store_to_disk_points(d, key, payload, io) ==
    LET opened == With(d, tmp_path(key), "")
        written == With(d, tmp_path(key), payload)
        replaced == With(Without(d, tmp_path(key)), cache_path(key), payload)
    IN CASE io.fail_at = "open" -> <<d, RemoveTmp(d, key, io)>>
         [] io.fail_at = "write" -> <<opened, RemoveTmp(opened, key, io)>>
         [] io.fail_at = "replace" ->
               <<opened, written, RemoveTmp(written, key, io)>>
         [] OTHER -> <<opened, written, replaced>>

\* whether a file operation of this _store_to_disk call raises OSError (1) or
\* none does (0); a removal of the temporary file that fails as well belongs
\* to the same faulty call
StoreFaults(d, key, io) ==
    IF io.fail_at = "none" THEN 0 ELSE 1

\* _load_from_disk looking for the temporary file instead of the target
load_from_disk_tmp(d, key, read_ok) ==
    IF tmp_path(key) \notin DOMAIN d THEN NoneIcon
    ELSE IF ~read_ok THEN NoneIcon
    ELSE icon_from_bytes(d[tmp_path(key)])

\* _load_from_disk; read_ok is false when open/read raises OSError
load_from_disk(d, key, read_ok) ==
    IF cache_path(key) \notin DOMAIN d THEN NoneIcon
    ELSE IF ~read_ok THEN NoneIcon
    ELSE icon_from_bytes(d[cache_path(key)])

\* whether the read of this _load_from_disk call raises OSError (1) or not (0)
LoadFaults(d, key, read_ok) ==
    IF cache_path(key) \in DOMAIN d /\ ~read_ok THEN 1 ELSE 0

(* --------------------------- negative cache --------------------------- *)

\* the cooldown test with the deadline itself still counted as cooling down
cooling_down_inclusive(fu, key, t) ==
    key \in DOMAIN fu /\ fu[key] # 0 /\ fu[key] >= t

\* the cooldown test of request_icon
cooling_down(fu, key, t) ==
    key \in DOMAIN fu /\ fu[key] # 0 /\ fu[key] > t

\* _mark_failed storing the cooldown itself instead of now + cooldown
mark_failed_no_now(fu, key, t) == With(fu, key, RETRY_COOLDOWN_SECONDS)

\* _mark_failed
mark_failed(fu, key, t) == With(fu, key, t + RETRY_COOLDOWN_SECONDS)

(* ---------------------------- download task --------------------------- *)

\* what requests.get can do: a response, a requests.RequestException, or
\* another exception
HttpOutcomes(job) ==
    {[exc |-> "none", status |-> 200, content |-> ImageOf(job.key)],
     [exc |-> "none", status |-> 200, content |-> "bad"],
     [exc |-> "none", status |-> 200, content |-> ""],
     [exc |-> "none", status |-> 206, content |-> ImageOf(job.key)],
     [exc |-> "none", status |-> 404, content |-> ""],
     [exc |-> "none", status |-> 500, content |-> "bad"],
     [exc |-> "ConnectionError", status |-> 0, content |-> ""],
     [exc |-> "Timeout", status |-> 0, content |-> ""],
     [exc |-> "UnicodeError", status |-> 0, content |-> ""]}

\* the class names of requests.RequestException and its subclasses: what
\* `except requests.RequestException` catches
RequestExceptions ==
    {"RequestException", "ConnectionError", "Timeout", "ConnectTimeout",
     "ReadTimeout", "HTTPError", "SSLError", "ProxyError", "URLRequired",
     "TooManyRedirects", "MissingSchema", "InvalidSchema", "InvalidURL",
     "InvalidHeader", "InvalidProxyURL", "InvalidJSONError", "JSONDecodeError",
     "ChunkedEncodingError", "ContentDecodingError", "StreamConsumedError",
     "RetryError", "UnrewindableBodyError"}

\* f"HTTP {response.status_code}"
HttpReason(status) == "HTTP " \o ToString(status)

\* run taking every 2xx status for a success
task_run_any_2xx(job, o) ==
    IF o.exc \in RequestExceptions
    THEN <<[signal |-> "failed", key |-> job.key, arg |-> o.exc]>>
    ELSE IF o.exc # "none" THEN <<>>
    ELSE IF o.status < 200 \/ o.status > 299
    THEN <<[signal |-> "failed", key |-> job.key, arg |-> HttpReason(o.status)]>>
    ELSE IF o.content = ""
    THEN <<[signal |-> "failed", key |-> job.key, arg |-> "empty response body"]>>
    ELSE <<[signal |-> "succeeded", key |-> job.key, arg |-> o.content]>>

\* _IconDownloadTask.run: the signals it emits, in order
task_run(job, o) ==
    IF o.exc \in RequestExceptions
    THEN <<[signal |-> "failed", key |-> job.key, arg |-> o.exc]>>
    ELSE IF o.exc # "none" THEN <<>>
    ELSE IF o.status # 200
    THEN <<[signal |-> "failed", key |-> job.key, arg |-> HttpReason(o.status)]>>
    ELSE IF o.content = ""
    THEN <<[signal |-> "failed", key |-> job.key, arg |-> "empty response body"]>>
    ELSE <<[signal |-> "succeeded", key |-> job.key, arg |-> o.content]>>

(* ------------------------------- Init --------------------------------- *)

EmptyFn == [x \in {} |-> 0]

\* the cache directory left by earlier runs: a file for every key, the one of
\* the first key damaged since it was written
WarmDisk ==
    [p \in {cache_path(key) : key \in Keys} |->
        IF p = cache_path("dm:81:a1") THEN "bad"
        ELSE ImageOf(CHOOSE key \in Keys : cache_path(key) = p)]

\* the cache directory a new process finds
InitDisks == {EmptyFn, WarmDisk}

\* the record of a step: the operation, its key, the icon_ready emissions
Step(op, key, emitted) == [op |-> op, key |-> key, emitted |-> emitted]

\* last keeps the most recent step that changed the state or emitted; a call
\* that changes nothing and emits nothing leaves no record
Record(op, key, emitted) ==
    last' = IF progvars' = progvars /\ emitted = <<>> THEN last
            ELSE Step(op, key, emitted)

\* a put or a get_icon hit of key, in the history of touches
Touch(seq, key) == Append(SelectSeq(seq, LAMBDA x : x # key), key)

\* IconCache.__init__
CacheInit ==
    /\ memory = <<>>
    /\ in_flight = {}
    /\ failed_until = EmptyFn
    /\ disk \in InitDisks
    /\ pool_queue = <<>>
    /\ running = EmptyBag
    /\ channel = <<>>
    /\ died = {}
    /\ now = 0
    /\ submitted = 0
    /\ ticks = 0
    /\ io_faults = 0
    /\ touched = <<>>
    /\ last = Step("init", "", <<>>)

\* no entries to go through: on_conversations_loaded is not running
NotLoading == [dms |-> <<>>, guilds |-> <<>>]

\* the window once constructed: the IconCache, the empty _icon_items, the
\* empty tree
WindowInit ==
    /\ CacheInit
    /\ icon_items = EmptyFn
    /\ item_icon = EmptyFn
    /\ in_tree = {}
    /\ loading = NotLoading

\* no resolver call under way
NoCall == [fn |-> "none", args |-> <<>>, results |-> <<>>]

\* MainWindow.__init__: no worker yet, no export running, an empty tree,
\* nothing checked, _pending_parent_intent = None, no mouse button down
NoSession ==
    [conversation |-> "none", export |-> "none", batch |-> "none",
     is_export_running |-> FALSE, connect_enabled |-> TRUE,
     has_roots |-> FALSE, leaves |-> {}, tooltip_items |-> <<>>,
     checked |-> {}, states |-> [p \in {} |-> "Unchecked"],
     pending |-> <<>>, pressed |-> <<>>, selected |-> 0,
     signals |-> <<>>, abandoned |-> {}]

\* no ConversationWorker.run() under way
NotStarted == [pc |-> "idle"]

\* no placeholder constructor called
NotCalled == [pc |-> "idle"]

\* the components that a specification leaves alone
OthersIdle(rest) ==
    /\ "resolver" \in rest => resolver = NoCall
    /\ "session" \in rest => session = NoSession
    /\ "worker" \in rest => worker = NotStarted
    /\ "placeholder" \in rest => placeholder = NotCalled

Init ==
    /\ WindowInit
    /\ OthersIdle({"resolver", "session", "worker", "placeholder"})

(* ------------------------------ actions ------------------------------- *)

jobvars == <<pool_queue, running, channel, died, submitted>>
envvars == <<now, ticks>>

\* IconCache.get_icon
get_icon(key) ==
    LET icon == MemGet(memory, key) IN
    /\ memory' = IF Truthy(icon) THEN move_to_end(memory, key) ELSE memory
    /\ touched' = IF Truthy(icon) THEN Touch(touched, key) ELSE touched
    /\ UNCHANGED <<in_flight, failed_until, disk, jobvars, envvars, io_faults>>
    /\ Record("get_icon", key, <<>>)

\* the value IconCache.get_icon returns
get_icon_returns(key) ==
    LET icon == MemGet(memory, key) IN
    IF ~Truthy(icon) THEN NoneIcon ELSE icon

\* request_branch without the in-flight test
request_branch_no_dedup(key, url, read_ok) ==
    IF key = "" THEN "no_key"
    ELSE IF key \in MemKeys(memory) THEN "in_memory"
    ELSE IF cooling_down(failed_until, key, now) THEN "cooling_down"
    ELSE IF Truthy(load_from_disk(disk, key, read_ok)) THEN "disk_hit"
    ELSE IF url = NoUrl \/ url = "" THEN "no_url"
    ELSE "schedule"

\* request_branch with the disk looked up before the in-flight and the
\* cooldown tests
request_branch_disk_first(key, url, read_ok) ==
    IF key = "" THEN "no_key"
    ELSE IF key \in MemKeys(memory) THEN "in_memory"
    ELSE IF Truthy(load_from_disk(disk, key, read_ok)) THEN "disk_hit"
    ELSE IF key \in in_flight THEN "in_flight"
    ELSE IF cooling_down(failed_until, key, now) THEN "cooling_down"
    ELSE IF url = NoUrl \/ url = "" THEN "no_url"
    ELSE "schedule"

\* request_branch with the url test made before the disk is looked up
request_branch_url_first(key, url, read_ok) ==
    IF key = "" THEN "no_key"
    ELSE IF key \in MemKeys(memory) THEN "in_memory"
    ELSE IF key \in in_flight THEN "in_flight"
    ELSE IF cooling_down(failed_until, key, now) THEN "cooling_down"
    ELSE IF url = NoUrl \/ url = "" THEN "no_url"
    ELSE IF Truthy(load_from_disk(disk, key, read_ok)) THEN "disk_hit"
    ELSE "schedule"

\* request_branch without the url test
request_branch_ignores_url(key, url, read_ok) ==
    IF key = "" THEN "no_key"
    ELSE IF key \in MemKeys(memory) THEN "in_memory"
    ELSE IF key \in in_flight THEN "in_flight"
    ELSE IF cooling_down(failed_until, key, now) THEN "cooling_down"
    ELSE IF Truthy(load_from_disk(disk, key, read_ok)) THEN "disk_hit"
    ELSE "schedule"

\* request_branch giving up when the file of the key exists and yields no icon
request_branch_bad_file_stops(key, url, read_ok) ==
    IF key = "" THEN "no_key"
    ELSE IF key \in MemKeys(memory) THEN "in_memory"
    ELSE IF key \in in_flight THEN "in_flight"
    ELSE IF cooling_down(failed_until, key, now) THEN "cooling_down"
    ELSE IF Truthy(load_from_disk(disk, key, read_ok)) THEN "disk_hit"
    ELSE IF cache_path(key) \in DOMAIN disk THEN "no_url"
    ELSE IF url = NoUrl \/ url = "" THEN "no_url"
    ELSE "schedule"

\* request_branch without the cooldown test
request_branch_no_cooldown(key, url, read_ok) ==
    IF key = "" THEN "no_key"
    ELSE IF key \in MemKeys(memory) THEN "in_memory"
    ELSE IF key \in in_flight THEN "in_flight"
    ELSE IF Truthy(load_from_disk(disk, key, read_ok)) THEN "disk_hit"
    ELSE IF url = NoUrl \/ url = "" THEN "no_url"
    ELSE "schedule"

\* the branch request_icon takes
request_branch(key, url, read_ok) ==
    IF key = "" THEN "no_key"
    ELSE IF key \in MemKeys(memory) THEN "in_memory"
    ELSE IF key \in in_flight THEN "in_flight"
    ELSE IF cooling_down(failed_until, key, now) THEN "cooling_down"
    ELSE IF Truthy(load_from_disk(disk, key, read_ok)) THEN "disk_hit"
    ELSE IF url = NoUrl \/ url = "" THEN "no_url"
    ELSE "schedule"

\* whether request_icon gets as far as _load_from_disk
ReadsDisk(branch) == branch \in {"disk_hit", "no_url", "schedule"}

\* request_icon remembering the icon of a disk hit without emitting icon_ready
request_icon_silent_disk_hit(key, url, read_ok) ==
    LET branch == request_branch(key, url, read_ok)
        icon == load_from_disk(disk, key, read_ok)
        faults == IF ReadsDisk(branch) THEN LoadFaults(disk, key, read_ok) ELSE 0
    IN
    /\ branch = "schedule" => submitted < MaxJobs
    /\ io_faults + faults <= MaxIoFaults
    /\ io_faults' = io_faults + faults
    /\ memory' = IF branch = "disk_hit" THEN remember(memory, key, icon) ELSE memory
    /\ touched' = IF branch = "disk_hit" THEN Touch(touched, key) ELSE touched
    /\ in_flight' = IF branch = "schedule" THEN in_flight \cup {key} ELSE in_flight
    /\ pool_queue' = IF branch = "schedule"
                     THEN Append(pool_queue, [key |-> key, url |-> url])
                     ELSE pool_queue
    /\ submitted' = IF branch = "schedule" THEN submitted + 1 ELSE submitted
    /\ UNCHANGED <<failed_until, disk, running, channel, died, envvars>>
    /\ Record("request_icon", key, <<>>)

\* request_icon deleting the failure record it finds expired
request_icon_pops_expired(key, url, read_ok) ==
    LET branch == request_branch(key, url, read_ok)
        icon == load_from_disk(disk, key, read_ok)
        faults == IF ReadsDisk(branch) THEN LoadFaults(disk, key, read_ok) ELSE 0
    IN
    /\ branch = "schedule" => submitted < MaxJobs
    /\ io_faults + faults <= MaxIoFaults
    /\ io_faults' = io_faults + faults
    /\ memory' = IF branch = "disk_hit" THEN remember(memory, key, icon) ELSE memory
    /\ touched' = IF branch = "disk_hit" THEN Touch(touched, key) ELSE touched
    /\ in_flight' = IF branch = "schedule" THEN in_flight \cup {key} ELSE in_flight
    /\ pool_queue' = IF branch = "schedule"
                     THEN Append(pool_queue, [key |-> key, url |-> url])
                     ELSE pool_queue
    /\ submitted' = IF branch = "schedule" THEN submitted + 1 ELSE submitted
    /\ failed_until' = IF ReadsDisk(branch) THEN Without(failed_until, key)
                       ELSE failed_until
    /\ UNCHANGED <<disk, running, channel, died, envvars>>
    /\ Record("request_icon", key,
              IF branch = "disk_hit" THEN <<<<key, icon>>>> ELSE <<>>)

\* IconCache.request_icon
request_icon(key, url, read_ok) ==
    LET branch == request_branch(key, url, read_ok)
        icon == load_from_disk(disk, key, read_ok)
        faults == IF ReadsDisk(branch) THEN LoadFaults(disk, key, read_ok) ELSE 0
    IN
    /\ branch = "schedule" => submitted < MaxJobs
    /\ io_faults + faults <= MaxIoFaults
    /\ io_faults' = io_faults + faults
    /\ memory' = IF branch = "disk_hit" THEN remember(memory, key, icon) ELSE memory
    /\ touched' = IF branch = "disk_hit" THEN Touch(touched, key) ELSE touched
    /\ in_flight' = IF branch = "schedule" THEN in_flight \cup {key} ELSE in_flight
    /\ pool_queue' = IF branch = "schedule"
                     THEN Append(pool_queue, [key |-> key, url |-> url])
                     ELSE pool_queue
    /\ submitted' = IF branch = "schedule" THEN submitted + 1 ELSE submitted
    /\ UNCHANGED <<failed_until, disk, running, channel, died, envvars>>
    /\ Record("request_icon", key,
              IF branch = "disk_hit" THEN <<<<key, icon>>>> ELSE <<>>)

\* the pool starting a queued task whether or not a thread is free
pool_start_unbounded ==
    /\ pool_queue # <<>>
    /\ running' = running (+) SetToBag({Head(pool_queue)})
    /\ pool_queue' = Tail(pool_queue)
    /\ UNCHANGED <<memory, in_flight, failed_until, disk, channel, died,
                   submitted, envvars, io_faults, touched>>
    /\ Record("pool_start", Head(pool_queue).key, <<>>)

\* QThreadPool: a free thread takes the oldest queued task
pool_start ==
    /\ pool_queue # <<>>
    /\ BagCardinality(running) < max_workers
    /\ running' = running (+) SetToBag({Head(pool_queue)})
    /\ pool_queue' = Tail(pool_queue)
    /\ UNCHANGED <<memory, in_flight, failed_until, disk, channel, died,
                   submitted, envvars, io_faults, touched>>
    /\ Record("pool_start", Head(pool_queue).key, <<>>)

\* run with the task removing its key from _in_flight on the pool thread
run_discards_in_flight(job, o) ==
    /\ BagIn(job, running)
    /\ running' = running (-) SetToBag({job})
    /\ channel' = channel \o task_run(job, o)
    /\ died' = IF task_run(job, o) = <<>> THEN died \cup {job} ELSE died
    /\ in_flight' = in_flight \ {job.key}
    /\ UNCHANGED <<memory, failed_until, disk, pool_queue,
                   submitted, envvars, io_faults, touched>>
    /\ Record("run", job.key, <<>>)

\* _IconDownloadTask.run on a pool thread; its signal is queued to the owner
run(job, o) ==
    /\ BagIn(job, running)
    /\ running' = running (-) SetToBag({job})
    /\ channel' = channel \o task_run(job, o)
    /\ died' = IF task_run(job, o) = <<>> THEN died \cup {job} ELSE died
    /\ UNCHANGED <<memory, in_flight, failed_until, disk, pool_queue,
                   submitted, envvars, io_faults, touched>>
    /\ Record("run", job.key, <<>>)

\* _on_download_succeeded discarding the key only once the bytes have decoded
on_download_succeeded_discard_late(io) ==
    /\ channel # <<>>
    /\ Head(channel).signal = "succeeded"
    /\ LET key == Head(channel).key
           payload == Head(channel).arg
           icon == icon_from_bytes(payload)
       IN
       /\ IF ~Truthy(icon)
          THEN /\ failed_until' = mark_failed(failed_until, key, now)
               /\ UNCHANGED <<memory, in_flight, disk, io_faults, touched>>
          ELSE /\ io_faults + StoreFaults(disk, key, io) <= MaxIoFaults
               /\ io_faults' = io_faults + StoreFaults(disk, key, io)
               /\ in_flight' = in_flight \ {key}
               /\ memory' = remember(memory, key, icon)
               /\ touched' = Touch(touched, key)
               /\ disk' = store_to_disk(disk, key, payload, io)
               /\ failed_until' = Without(failed_until, key)
    /\ channel' = Tail(channel)
    /\ UNCHANGED <<pool_queue, running, died, submitted, envvars>>
    /\ Record("on_download_succeeded", Head(channel).key,
              IF Truthy(icon_from_bytes(Head(channel).arg))
              THEN <<<<Head(channel).key, icon_from_bytes(Head(channel).arg)>>>>
              ELSE <<>>)

\* _on_download_succeeded giving up, as for a failed fetch, when the write to
\* disk raises OSError
on_download_succeeded_store_first(io) ==
    /\ channel # <<>>
    /\ Head(channel).signal = "succeeded"
    /\ LET key == Head(channel).key
           payload == Head(channel).arg
           icon == icon_from_bytes(payload)
       IN
       /\ in_flight' = in_flight \ {key}
       /\ IF ~Truthy(icon)
          THEN /\ failed_until' = mark_failed(failed_until, key, now)
               /\ UNCHANGED <<memory, disk, io_faults, touched>>
          ELSE /\ io_faults + StoreFaults(disk, key, io) <= MaxIoFaults
               /\ io_faults' = io_faults + StoreFaults(disk, key, io)
               /\ disk' = store_to_disk(disk, key, payload, io)
               /\ IF io.fail_at = "none"
                  THEN /\ memory' = remember(memory, key, icon)
                       /\ touched' = Touch(touched, key)
                       /\ failed_until' = Without(failed_until, key)
                  ELSE /\ failed_until' = mark_failed(failed_until, key, now)
                       /\ UNCHANGED <<memory, touched>>
    /\ channel' = Tail(channel)
    /\ UNCHANGED <<pool_queue, running, died, submitted, envvars>>
    /\ Record("on_download_succeeded", Head(channel).key,
              IF /\ Truthy(icon_from_bytes(Head(channel).arg))
                 /\ io.fail_at = "none"
              THEN <<<<Head(channel).key, icon_from_bytes(Head(channel).arg)>>>>
              ELSE <<>>)

\* _on_download_succeeded leaving the key of a decoded image in _in_flight
on_download_succeeded_keeps_in_flight(io) ==
    /\ channel # <<>>
    /\ Head(channel).signal = "succeeded"
    /\ LET key == Head(channel).key
           payload == Head(channel).arg
           icon == icon_from_bytes(payload)
       IN
       /\ IF ~Truthy(icon)
          THEN /\ in_flight' = in_flight \ {key}
               /\ failed_until' = mark_failed(failed_until, key, now)
               /\ UNCHANGED <<memory, disk, io_faults, touched>>
          ELSE /\ io_faults + StoreFaults(disk, key, io) <= MaxIoFaults
               /\ io_faults' = io_faults + StoreFaults(disk, key, io)
               /\ in_flight' = in_flight
               /\ memory' = remember(memory, key, icon)
               /\ touched' = Touch(touched, key)
               /\ disk' = store_to_disk(disk, key, payload, io)
               /\ failed_until' = Without(failed_until, key)
    /\ channel' = Tail(channel)
    /\ UNCHANGED <<pool_queue, running, died, submitted, envvars>>
    /\ Record("on_download_succeeded", Head(channel).key,
              IF Truthy(icon_from_bytes(Head(channel).arg))
              THEN <<<<Head(channel).key, icon_from_bytes(Head(channel).arg)>>>>
              ELSE <<>>)

\* _on_download_succeeded writing the payload to disk before it is decoded
on_download_succeeded_stores_undecoded(io) ==
    /\ channel # <<>>
    /\ Head(channel).signal = "succeeded"
    /\ LET key == Head(channel).key
           payload == Head(channel).arg
           icon == icon_from_bytes(payload)
       IN
       /\ in_flight' = in_flight \ {key}
       /\ io_faults + StoreFaults(disk, key, io) <= MaxIoFaults
       /\ io_faults' = io_faults + StoreFaults(disk, key, io)
       /\ disk' = store_to_disk(disk, key, payload, io)
       /\ IF ~Truthy(icon)
          THEN /\ failed_until' = mark_failed(failed_until, key, now)
               /\ UNCHANGED <<memory, touched>>
          ELSE /\ memory' = remember(memory, key, icon)
               /\ touched' = Touch(touched, key)
               /\ failed_until' = Without(failed_until, key)
    /\ channel' = Tail(channel)
    /\ UNCHANGED <<pool_queue, running, died, submitted, envvars>>
    /\ Record("on_download_succeeded", Head(channel).key,
              IF Truthy(icon_from_bytes(Head(channel).arg))
              THEN <<<<Head(channel).key, icon_from_bytes(Head(channel).arg)>>>>
              ELSE <<>>)

\* IconCache._on_download_succeeded, called for the oldest queued delivery
on_download_succeeded(io) ==
    /\ channel # <<>>
    /\ Head(channel).signal = "succeeded"
    /\ LET key == Head(channel).key
           payload == Head(channel).arg
           icon == icon_from_bytes(payload)
       IN
       /\ in_flight' = in_flight \ {key}
       /\ IF ~Truthy(icon)
          THEN /\ failed_until' = mark_failed(failed_until, key, now)
               /\ UNCHANGED <<memory, disk, io_faults, touched>>
          ELSE /\ io_faults + StoreFaults(disk, key, io) <= MaxIoFaults
               /\ io_faults' = io_faults + StoreFaults(disk, key, io)
               /\ memory' = remember(memory, key, icon)
               /\ touched' = Touch(touched, key)
               /\ disk' = store_to_disk(disk, key, payload, io)
               /\ failed_until' = Without(failed_until, key)
    /\ channel' = Tail(channel)
    /\ UNCHANGED <<pool_queue, running, died, submitted, envvars>>
    /\ Record("on_download_succeeded", Head(channel).key,
              IF Truthy(icon_from_bytes(Head(channel).arg))
              THEN <<<<Head(channel).key, icon_from_bytes(Head(channel).arg)>>>>
              ELSE <<>>)

\* _on_download_failed without the discard from _in_flight
on_download_failed_keeps_in_flight ==
    /\ channel # <<>>
    /\ Head(channel).signal = "failed"
    /\ failed_until' = mark_failed(failed_until, Head(channel).key, now)
    /\ channel' = Tail(channel)
    /\ UNCHANGED <<memory, in_flight, disk, pool_queue, running, died, submitted,
                   envvars, io_faults, touched>>
    /\ Record("on_download_failed", Head(channel).key, <<>>)

\* _on_download_failed announcing the failure on icon_ready
on_download_failed_emits ==
    /\ channel # <<>>
    /\ Head(channel).signal = "failed"
    /\ in_flight' = in_flight \ {Head(channel).key}
    /\ failed_until' = mark_failed(failed_until, Head(channel).key, now)
    /\ channel' = Tail(channel)
    /\ UNCHANGED <<memory, disk, pool_queue, running, died, submitted, envvars,
                   io_faults, touched>>
    /\ Record("on_download_failed", Head(channel).key,
              <<<<Head(channel).key, NoneIcon>>>>)

\* IconCache._on_download_failed, called for the oldest queued delivery
on_download_failed ==
    /\ channel # <<>>
    /\ Head(channel).signal = "failed"
    /\ in_flight' = in_flight \ {Head(channel).key}
    /\ failed_until' = mark_failed(failed_until, Head(channel).key, now)
    /\ channel' = Tail(channel)
    /\ UNCHANGED <<memory, disk, pool_queue, running, died, submitted, envvars,
                   io_faults, touched>>
    /\ Record("on_download_failed", Head(channel).key, <<>>)

\* time passes
tick(step) ==
    /\ ticks < MaxTicks
    /\ now' = now + step
    /\ ticks' = ticks + 1
    /\ UNCHANGED <<memory, in_flight, failed_until, disk, jobvars, io_faults,
                   touched>>
    /\ Record("tick", "", <<>>)

\* the process ends and a new one constructs IconCache over the same directory
restart ==
    /\ memory' = <<>>
    /\ in_flight' = {}
    /\ failed_until' = EmptyFn
    /\ pool_queue' = <<>>
    /\ running' = EmptyBag
    /\ channel' = <<>>
    /\ died' = {}
    /\ touched' = <<>>
    /\ UNCHANGED <<disk, now, ticks, submitted, io_faults>>
    /\ Record("init", "", <<>>)

Next ==
    \/ /\ \E key \in KeyArgs : get_icon(key)
       /\ UNCHANGED <<winvars, restvars>>
    \/ /\ \E key \in KeyArgs : \E url \in UrlArgs(key) : \E read_ok \in BOOLEAN :
             request_icon(key, url, read_ok)
       /\ UNCHANGED <<winvars, restvars>>
    \/ pool_start /\ UNCHANGED <<winvars, restvars>>
    \/ /\ \E job \in BagToSet(running) : \E o \in HttpOutcomes(job) : run(job, o)
       /\ UNCHANGED <<winvars, restvars>>
    \/ /\ \E io \in StoreOutcomes : on_download_succeeded(io)
       /\ UNCHANGED <<winvars, restvars>>
    \/ on_download_failed /\ UNCHANGED <<winvars, restvars>>
    \/ /\ \E step \in TickSteps : tick(step)
       /\ UNCHANGED <<winvars, restvars>>
    \/ restart /\ UNCHANGED <<winvars, restvars>>

Spec == Init /\ [][Next]_vars

\* the steps of one process, from its construction of the IconCache on
ProcessNext ==
    \/ /\ \E key \in KeyArgs : get_icon(key)
       /\ UNCHANGED <<winvars, restvars>>
    \/ /\ \E key \in KeyArgs : \E url \in UrlArgs(key) : \E read_ok \in BOOLEAN :
             request_icon(key, url, read_ok)
       /\ UNCHANGED <<winvars, restvars>>
    \/ pool_start /\ UNCHANGED <<winvars, restvars>>
    \/ /\ \E job \in BagToSet(running) : \E o \in HttpOutcomes(job) : run(job, o)
       /\ UNCHANGED <<winvars, restvars>>
    \/ /\ \E io \in StoreOutcomes : on_download_succeeded(io)
       /\ UNCHANGED <<winvars, restvars>>
    \/ on_download_failed /\ UNCHANGED <<winvars, restvars>>
    \/ /\ \E step \in TickSteps : tick(step)
       /\ UNCHANGED <<winvars, restvars>>

\* the scheduling the process relies on: a free pool thread takes the oldest
\* queued task, requests.get returns or raises within its timeout so that run
\* ends, and the owner's event loop calls the slot of every queued signal
Fairness ==
    /\ WF_vars(pool_start)
    /\ WF_vars(\E job \in BagToSet(running) : \E o \in HttpOutcomes(job) : run(job, o))
    /\ WF_vars(\E io \in StoreOutcomes : on_download_succeeded(io))
    /\ WF_vars(on_download_failed)

\* one process under fair scheduling of the pool and of the owner's event loop
FairSpec == Init /\ [][ProcessNext]_vars /\ Fairness

(* ------------------------- derived quantities ------------------------- *)

RECURSIVE BagCount(_, _)
\* the number of copies, in bag B, of the elements of set S
BagCount(B, S) ==
    IF S = {} THEN 0
    ELSE LET x == CHOOSE y \in S : TRUE
         IN CopiesIn(x, B) + BagCount(B, S \ {x})

\* tasks for key waiting in the pool
QueuedFor(key) ==
    Cardinality({i \in 1..Len(pool_queue) : pool_queue[i].key = key})

\* tasks for key running on a pool thread
RunningFor(key) ==
    BagCount(running, {job \in BagToSet(running) : job.key = key})

\* results for key emitted by a task and not yet processed by the owner
UndeliveredFor(key) ==
    Cardinality({i \in 1..Len(channel) : channel[i].key = key})

\* fetch jobs for key that are outstanding: scheduled, result not yet processed
JobsFor(key) == QueuedFor(key) + RunningFor(key) + UndeliveredFor(key)

\* tasks for key that ended without a result
DiedFor(key) == Cardinality({job \in died : job.key = key})

\* key has a cooldown deadline that is still in the future
Cooling(key) == key \in DOMAIN failed_until /\ failed_until[key] > now

\* the steps that run in the thread that owns the IconCache
OwnerOps ==
    {"init", "get_icon", "request_icon", "on_download_succeeded",
     "on_download_failed"}

HandlerOps == {"on_download_succeeded", "on_download_failed"}

(* ------------------------------- claims ------------------------------- *)

\* C1: for every key, in every reachable state, at most one fetch job is
\* outstanding (queued in the pool, running, or finished with its result not
\* yet processed), whatever the interleaving of request_icon calls and
\* completions.
C1_AtMostOneJobPerKey == \A key \in Keys : JobsFor(key) <= 1

\* C1 witness: a second fetch of a key was scheduled after the first one
\* failed and its cooldown expired, and it is the only outstanding job of
\* the key.
C1_Witness ==
    \E key \in Keys :
        /\ last.op = "request_icon" /\ last.key = key
        /\ key \in DOMAIN failed_until
        /\ submitted = 2
        /\ JobsFor(key) = 1

\* C2: every step that changes _memory, _failed_until or _in_flight is a step
\* of the owner thread, a step of a pool thread changes none of them, and a
\* key leaves _in_flight (within one process) only in the handler that takes
\* the result of that key from the head of the owner's queue.
C2_SingleWriter ==
    [][/\ <<memory, failed_until, in_flight>>' # <<memory, failed_until, in_flight>>
          => last'.op \in OwnerOps
       /\ \A key \in Keys :
             (key \in in_flight /\ key \notin in_flight' /\ last'.op # "init")
             => /\ last'.op \in HandlerOps
                /\ last'.key = key
                /\ channel # <<>>
                /\ Head(channel).key = key
                /\ channel' = Tail(channel)]_vars

\* C2 witness: a handler step of the owner has removed a key from _in_flight
\* and stored its icon, while a task of another key is on a pool thread.
C2_Witness ==
    /\ last.op = "on_download_succeeded"
    /\ last.key \notin in_flight
    /\ last.key \in MemKeys(memory)
    /\ BagCardinality(running) = 1

\* C3: a key is in _in_flight exactly when a fetch job for it has been
\* scheduled and its result has not been processed: the job is queued,
\* running, has its result waiting for the owner, or ended with no result.
C3_InFlightIffScheduled ==
    \A key \in KeyArgs :
        key \in in_flight <=> JobsFor(key) + DiedFor(key) >= 1

\* C3 witness: a task has emitted its result, the owner has not processed it
\* yet, and the key is still in _in_flight.
C3_Witness ==
    \E key \in Keys :
        /\ key \in in_flight
        /\ UndeliveredFor(key) = 1
        /\ QueuedFor(key) + RunningFor(key) = 0

\* a request_icon(key, url) step that schedules a fetch of key
SchedulesFetch(key, url) ==
    /\ request_icon(key, url, TRUE)
    /\ in_flight' = in_flight \cup {key}
    /\ pool_queue' = Append(pool_queue, [key |-> key, url |-> url])
    /\ submitted' = submitted + 1

\* C4, first half, as a property of every step: a failure processed at time
\* t leaves the deadline t + 300; while the clock is before the deadline of
\* key the record stays as it is (within one process), and no request_icon
\* for key, with or without url, changes the pool, _in_flight or the count of
\* scheduled tasks.
C4_StepSuppressed ==
    /\ (last'.op \in HandlerOps /\ last'.emitted = <<>>)
       => /\ last'.key \in DOMAIN failed_until'
          /\ failed_until'[last'.key] = now + RETRY_COOLDOWN_SECONDS
    /\ \A key \in Keys :
          Cooling(key) =>
            /\ last'.op # "init" =>
                  /\ key \in DOMAIN failed_until'
                  /\ failed_until'[key] = failed_until[key]
            /\ \A url \in UrlArgs(key) : \A read_ok \in BOOLEAN :
                  request_icon(key, url, read_ok)
                  => UNCHANGED <<pool_queue, running, channel, in_flight, submitted>>

\* C4, second half, as a property of every state: once the clock has reached
\* the deadline of key, with key not in memory, not in flight and not on
\* disk, request_icon(key, url) schedules a fetch.
C4_StateRetries ==
    \A key \in Keys :
        (/\ key \in DOMAIN failed_until
         /\ now >= failed_until[key]
         /\ key \notin MemKeys(memory)
         /\ key \notin in_flight
         /\ cache_path(key) \notin DOMAIN disk
         /\ submitted < MaxJobs)
        => ENABLED SchedulesFetch(key, UrlOf(key))

\* C4: negative-cache suppression: no fetch of a key is scheduled before the
\* deadline its failure set (the time of the failure plus 300 s), and a
\* request made at or after the deadline schedules one.
C4_NegativeCacheSuppression == []C4_StateRetries /\ [][C4_StepSuppressed]_vars

\* C4 witness: a request made exactly at the deadline of a failed key has
\* scheduled its second fetch.
C4_Witness ==
    \E key \in Keys :
        /\ last.op = "request_icon" /\ last.key = key
        /\ key \in DOMAIN failed_until
        /\ failed_until[key] = now
        /\ QueuedFor(key) = 1
        /\ key \in in_flight

\* the keys of the memory cache, in its order
MemKeySeq(mem) == [i \in 1..Len(mem) |-> mem[i].key]

\* the n latest entries of a sequence
LastN(seq, n) ==
    IF Len(seq) <= n THEN seq ELSE SubSeq(seq, Len(seq) - n + 1, Len(seq))

\* C5: the memory cache never holds more than max_items entries, and it
\* holds exactly the max_items most recently touched keys (touched by a put
\* or a get_icon hit), least recently touched first: so once more than
\* max_items keys were resolved it holds exactly max_items, and every
\* eviction removed the least recently touched key.
C5_LruBounded ==
    /\ Len(memory) <= max_items
    /\ MemKeySeq(memory) = LastN(touched, max_items)

\* C5 witness: the put of one key more than the capacity has just evicted
\* the key touched longest ago, leaving exactly max_items entries.
C5_Witness ==
    /\ last.emitted # <<>>
    /\ Len(touched) = max_items + 1
    /\ Len(memory) = max_items
    /\ touched[1] \notin MemKeys(memory)
    /\ last.key = touched[Len(touched)]

\* a cache instance as constructed: nothing in memory, in flight or failed
Fresh == memory = <<>> /\ in_flight = {} /\ failed_until = EmptyFn

\* the icon decoded from image bytes
DecodedIcon(bytes) == [pixmap |-> bytes, size |-> DEFAULT_ICON_SIZE]

\* a request_icon(key, None) step that resolves key from its file, read
\* without error, and schedules nothing
ResolvesFromDisk(key) ==
    /\ request_icon(key, NoUrl, TRUE)
    /\ memory' = <<[key |-> key, icon |-> DecodedIcon(disk[cache_path(key)])]>>
    /\ last'.emitted = <<<<key, DecodedIcon(disk[cache_path(key)])>>>>
    /\ UNCHANGED <<disk, in_flight, failed_until, pool_queue, running, channel,
                   submitted>>

\* C6: whenever the file of key holds image bytes (every file the cache
\* wrote does, and it sits at the path derived from the key alone), a fresh
\* instance that gets request_icon(key, None) and reads the file ends with
\* key in memory, decoded from those bytes, and has scheduled no fetch.
C6_DiskRoundTrip ==
    /\ \A key \in Keys :
          cache_path(key) \in DOMAIN disk
          => disk[cache_path(key)] \in {ImageOf(key), WarmDisk[cache_path(key)]}
    /\ \A key \in Keys :
          (/\ Fresh
           /\ cache_path(key) \in DOMAIN disk
           /\ disk[cache_path(key)] \in ImagePayloads)
          => ENABLED ResolvesFromDisk(key)

\* C6 witness: the file of the first key was written after a fetch, the
\* process was restarted, and request_icon without url has put the key in
\* the empty memory of the new instance from that file; one task in all.
C6_Witness ==
    /\ last = Step("request_icon", "dm:81:a1",
                   <<<<"dm:81:a1", DecodedIcon(ImageOf("dm:81:a1"))>>>>)
    /\ disk[cache_path("dm:81:a1")] = ImageOf("dm:81:a1")
    /\ memory = <<[key |-> "dm:81:a1", icon |-> DecodedIcon(ImageOf("dm:81:a1"))]>>
    /\ submitted = 1
    /\ in_flight = {} /\ pool_queue = <<>> /\ running = EmptyBag /\ channel = <<>>

\* the step is _on_download_succeeded taking a result whose bytes are an image
SuccessStep ==
    /\ last'.op = "on_download_succeeded"
    /\ channel # <<>>
    /\ Head(channel).signal = "succeeded"
    /\ Head(channel).arg \in ImagePayloads

\* the step is _on_download_succeeded taking a result whose bytes are no image
DecodeFailureStep ==
    /\ last'.op = "on_download_succeeded"
    /\ channel # <<>>
    /\ Head(channel).signal = "succeeded"
    /\ Head(channel).arg \notin ImagePayloads

\* the step is _on_download_failed
FailureStep ==
    /\ last'.op = "on_download_failed"
    /\ channel # <<>>
    /\ Head(channel).signal = "failed"

\* what a failure leaves for key: a cooldown from now, key out of
\* _in_flight, memory and disk as they were, nothing emitted
FailureEffect(key) ==
    /\ key \in DOMAIN failed_until'
    /\ failed_until'[key] = now + RETRY_COOLDOWN_SECONDS
    /\ key \notin in_flight'
    /\ in_flight' = in_flight \ {key}
    /\ memory' = memory
    /\ disk' = disk
    /\ last'.emitted = <<>>

\* C7: a result that arrives as a success but whose bytes do not decode is
\* handled as a failure: cooldown set for the key, key out of _in_flight,
\* memory and disk unchanged, no icon_ready.
C7_MalformedPayload ==
    [][DecodeFailureStep => FailureEffect(Head(channel).key)]_vars

\* C7 witness: a 200 response with bytes that are no image was processed; the
\* key is cooling down from now, out of _in_flight and not in memory.
C7_Witness ==
    /\ last = Step("on_download_succeeded", last.key, <<>>)
    /\ last.key \in DOMAIN failed_until
    /\ failed_until[last.key] = now + RETRY_COOLDOWN_SECONDS
    /\ last.key \notin in_flight
    /\ last.key \notin MemKeys(memory)

\* C8: processing a success whose bytes decode puts the key in memory with
\* the icon decoded from those bytes, leaves the raw bytes in the file of
\* the key (when a file operation of the write raised OSError: leaves that
\* file as it was), clears the cooldown of the key, removes the key from
\* _in_flight and emits icon_ready(key, icon) exactly once.
C8_SuccessEffect ==
    [][SuccessStep =>
         LET key == Head(channel).key
             bytes == Head(channel).arg
         IN /\ key \in MemKeys(memory')
            /\ MemGet(memory', key) = DecodedIcon(bytes)
            /\ memory'[Len(memory')].key = key
            /\ IF io_faults' = io_faults
               THEN /\ cache_path(key) \in DOMAIN disk'
                    /\ disk'[cache_path(key)] = bytes
               ELSE /\ cache_path(key) \in DOMAIN disk' <=> cache_path(key) \in DOMAIN disk
                    /\ cache_path(key) \in DOMAIN disk
                       => disk'[cache_path(key)] = disk[cache_path(key)]
            /\ key \notin DOMAIN failed_until'
            /\ in_flight' = in_flight \ {key}
            /\ key \notin in_flight'
            /\ last'.emitted = <<<<key, DecodedIcon(bytes)>>>>]_vars

\* C8 witness: the second fetch submitted has succeeded a cooldown period
\* after start-up: its icon is the only one in memory, its bytes are the only
\* file on disk, no cooldown is recorded, nothing is in flight and icon_ready
\* was emitted once with the decoded icon.
C8_Witness ==
    /\ last = Step("on_download_succeeded", last.key,
                   <<<<last.key, DecodedIcon(ImageOf(last.key))>>>>)
    /\ memory = <<[key |-> last.key, icon |-> DecodedIcon(ImageOf(last.key))]>>
    /\ DOMAIN disk = {cache_path(last.key)}
    /\ disk[cache_path(last.key)] = ImageOf(last.key)
    /\ failed_until = EmptyFn
    /\ in_flight = {}
    /\ submitted = 2
    /\ now >= RETRY_COOLDOWN_SECONDS
    /\ touched = <<last.key>>

\* C9: processing a failure of key (bad status, empty body, transport error,
\* or bytes that do not decode) records the deadline now + 300 for key,
\* removes key from _in_flight, emits nothing and leaves memory and disk
\* unchanged.
C9_FailureEffect ==
    [][(FailureStep \/ DecodeFailureStep) => FailureEffect(Head(channel).key)]_vars

\* C9 witness: a failed signal was processed after the clock had advanced;
\* the deadline of the key is now + 300 and the key is out of _in_flight.
C9_Witness ==
    /\ last = Step("on_download_failed", last.key, <<>>)
    /\ now > 0
    /\ last.key \in DOMAIN failed_until
    /\ failed_until[last.key] = now + RETRY_COOLDOWN_SECONDS
    /\ last.key \notin in_flight

\* C10: request_icon(key, url) changes nothing (memory and its order,
\* _in_flight, the negative cache, the disk, the pool) and emits nothing when
\* key is in memory, or in flight, or cooling down, whether or not a file of
\* key exists.
C10_RequestNoOp ==
    [](\A key \in Keys : \A url \in UrlArgs(key) : \A read_ok \in BOOLEAN :
          (\/ key \in MemKeys(memory)
           \/ key \in in_flight
           \/ Cooling(key))
          => ENABLED (request_icon(key, url, read_ok) /\ UNCHANGED vars))

\* C10 witness: the three cases at once: one key is cooling down while its
\* file, holding image bytes, is on disk; a second key is in flight with a
\* file on disk; a third key is in memory; and request_icon can be called.
C10_Witness ==
    \E key \in Keys : \E second \in Keys : \E third \in Keys :
        /\ Cooling(key)
        /\ cache_path(key) \in DOMAIN disk
        /\ disk[cache_path(key)] \in ImagePayloads
        /\ key \notin MemKeys(memory)
        /\ second \in in_flight
        /\ cache_path(second) \in DOMAIN disk
        /\ third \in MemKeys(memory)
        /\ \A k \in {key, second, third} : ENABLED request_icon(k, UrlOf(k), TRUE)

\* key can be resolved from its file: not in memory, not in flight, not cooling
\* down, and the file of key holds image bytes
DiskHitReady(key) ==
    /\ key \notin MemKeys(memory)
    /\ key \notin in_flight
    /\ ~Cooling(key)
    /\ cache_path(key) \in DOMAIN disk
    /\ disk[cache_path(key)] \in ImagePayloads

\* a request_icon(key, url) step, the file read without error, that puts the
\* icon decoded from the file of key in memory as the most recent entry,
\* emits icon_ready(key, icon) once and hands nothing to the pool
DiskHit(key, url) ==
    /\ request_icon(key, url, TRUE)
    /\ key \in MemKeys(memory')
    /\ memory'[Len(memory')] =
          [key |-> key, icon |-> DecodedIcon(disk[cache_path(key)])]
    /\ last' = Step("request_icon", key,
                    <<<<key, DecodedIcon(disk[cache_path(key)])>>>>)
    /\ key \notin in_flight'
    /\ UNCHANGED <<in_flight, failed_until, disk, pool_queue, running, channel,
                   died, submitted>>

\* C11: when key is not in memory, not in flight and not cooling down and its
\* file holds image bytes, request_icon(key, url), with a url or without,
\* puts the decoded image in memory, emits icon_ready(key, image), does not
\* add key to _in_flight and hands no task to the pool.
C11_DiskHitNoFetch ==
    \A key \in Keys : \A url \in UrlArgs(key) :
        DiskHitReady(key) => ENABLED DiskHit(key, url)

\* C11 witness: a key whose fetch failed earlier, its cooldown over exactly
\* now, has just been resolved from its file by request_icon: icon_ready was
\* emitted in that call, nothing is in flight and the pool is idle.
C11_Witness ==
    /\ last = Step("request_icon", last.key,
                   <<<<last.key, DecodedIcon(ImageOf(last.key))>>>>)
    /\ last.key \in DOMAIN failed_until
    /\ failed_until[last.key] = now
    /\ last.key \in MemKeys(memory)
    /\ in_flight = {} /\ pool_queue = <<>> /\ running = EmptyBag /\ channel = <<>>

\* C12: when key is not in memory, not in flight, not cooling down and has no
\* file, request_icon(key, None) (and request_icon(key, "")) changes nothing:
\* no task, key not in _in_flight, no cooldown recorded, nothing emitted.
C12_NoUrlNoOp ==
    \A key \in Keys : \A url \in {NoUrl, ""} : \A read_ok \in BOOLEAN :
        (/\ key \notin MemKeys(memory)
         /\ key \notin in_flight
         /\ ~Cooling(key)
         /\ cache_path(key) \notin DOMAIN disk)
        => ENABLED (request_icon(key, url, read_ok) /\ UNCHANGED vars)

\* C12 witness: a key that failed before, its cooldown over, with no file, not
\* in memory and not in flight, while the task of another key is running:
\* request_icon without url can be called on it.
C12_Witness ==
    \E key \in Keys :
        /\ key \in DOMAIN failed_until
        /\ now >= failed_until[key]
        /\ key \notin MemKeys(memory)
        /\ key \notin in_flight
        /\ cache_path(key) \notin DOMAIN disk
        /\ BagCardinality(running) = 1
        /\ ENABLED request_icon(key, NoUrl, TRUE)

\* what a get_icon(key) step may change: on a hit the entry of key moves to
\* the most recent end, the other entries keep their order; nothing else
GetIconFrame(key) ==
    /\ get_icon(key)
    /\ MemKeys(memory') = MemKeys(memory)
    /\ \A k \in Keys : MemGet(memory', k) = MemGet(memory, k)
    /\ IF key \in MemKeys(memory)
       THEN /\ memory'[Len(memory')].key = key
            /\ SubSeq(memory', 1, Len(memory') - 1) = MemWithout(memory, key)
       ELSE memory' = memory
    /\ last' = last \/ last' = Step("get_icon", key, <<>>)
    /\ UNCHANGED <<in_flight, failed_until, disk, io_faults, pool_queue,
                   running, channel, died, submitted, now>>

\* C13: get_icon(key) returns the icon cached for key when key is in memory
\* and None otherwise; it reads no file, schedules nothing, emits nothing and
\* leaves the cached keys and icons, _in_flight and the negative cache as
\* they are; on a hit it moves key to the most recently used end.
C13_GetIconPure ==
    \A key \in KeyArgs :
        /\ key \in MemKeys(memory)
           => /\ get_icon_returns(key) = DecodedIcon(ImageOf(key))
              /\ \E i \in 1..Len(memory) :
                    memory[i] = [key |-> key, icon |-> get_icon_returns(key)]
        /\ key \notin MemKeys(memory) => get_icon_returns(key) = NoneIcon
        /\ ENABLED GetIconFrame(key)

\* C13 witness: a get_icon hit on the older of two cached keys has moved it
\* to the most recently used end while tasks are outstanding.
C13_Witness ==
    /\ last.op = "get_icon"
    /\ Len(memory) = 2
    /\ memory[2].key = last.key
    /\ touched = <<memory[1].key, memory[2].key>>
    /\ in_flight # {}

\* the icon_ready emissions of the step: those recorded for it, none for a
\* step that changes nothing
StepEmits == IF vars' = vars THEN <<>> ELSE last'.emitted

\* the number of icon_ready emissions for key in a sequence of emissions
EmitCount(emitted, key) ==
    Cardinality({i \in 1..Len(emitted) : emitted[i][1] = key})

\* the step processes a fetch of key that succeeded with bytes that decode
FetchResolves(key) == SuccessStep /\ Head(channel).key = key

\* the step is a request_icon that resolves key from its file: key was
\* neither in memory, in flight nor cooling down, and is in memory after it
DiskResolves(key) ==
    /\ last'.op = "request_icon"
    /\ last'.key = key
    /\ DiskHitReady(key)
    /\ key \in MemKeys(memory')

\* C14: every step emits icon_ready for key exactly once, with the icon
\* decoded for key, when it processes a successful decodable fetch of key or
\* resolves key from its file, and not at all otherwise (a failure emits
\* none); so over any execution the notifications for key are as many as its
\* successful fetches plus its disk hits.
C14_NotificationCount ==
    [][\A key \in KeyArgs :
          /\ EmitCount(StepEmits, key) =
                IF FetchResolves(key) \/ DiskResolves(key) THEN 1 ELSE 0
          /\ \A i \in 1..Len(StepEmits) :
                StepEmits[i][1] = key
                => StepEmits[i][2] = DecodedIcon(ImageOf(key))]_vars

\* C14 witness: the second notification of the first key: its file, written
\* by its successful fetch in an earlier process, has just resolved it again
\* by a disk hit, while the failed fetch of another key left a cooldown and
\* no notification.
C14_Witness ==
    /\ last = Step("request_icon", "dm:81:a1",
                   <<<<"dm:81:a1", DecodedIcon(ImageOf("dm:81:a1"))>>>>)
    /\ disk[cache_path("dm:81:a1")] = ImageOf("dm:81:a1")
    /\ \E other \in Keys \ {"dm:81:a1"} :
          /\ other \in DOMAIN failed_until
          /\ other \notin MemKeys(memory)
    /\ submitted = 2

\* MainWindow.__init__ connects icon_ready to on_icon_ready with the default
\* connection type; the IconCache and the window live in the same thread, so
\* the slot is called inside icon_ready.emit: the calls of on_icon_ready made
\* during a step are the emissions of that step
on_icon_ready_calls(step) == step.emitted

\* request_icon(key, url) schedules a fetch from this state: key is new to
\* the cache and its file does not resolve it
SchedulesFrom(key, url, read_ok) ==
    /\ request_branch(key, url, read_ok) = "schedule"
    /\ submitted < MaxJobs
    /\ io_faults + LoadFaults(disk, key, read_ok) <= MaxIoFaults

\* C15 as stated: no observer is called inside a request_icon call: every
\* notification, of a fetch and of a disk hit, comes after the call returned.
C15_AlwaysAsynchronous ==
    on_icon_ready_calls(last) # <<>> => last.op # "request_icon"

\* C15 amended: a resolution by fetch is notified asynchronously: the
\* request_icon call that schedules the fetch returns with no observer
\* called, and on_icon_ready is called later, from the handler the owner's
\* event loop runs for the result; a resolution by disk hit is notified
\* synchronously: on_icon_ready is called inside the request_icon call,
\* before it returns.
C15_AsynchronousForFetchOnly ==
    /\ on_icon_ready_calls(last) # <<>>
       => last.op \in {"request_icon", "on_download_succeeded"}
    /\ \A key \in Keys : \A url \in UrlArgs(key) :
          /\ DiskHitReady(key)
             => ENABLED (/\ request_icon(key, url, TRUE)
                         /\ on_icon_ready_calls(last') =
                               <<<<key, DecodedIcon(disk[cache_path(key)])>>>>)
          /\ \A read_ok \in BOOLEAN :
                SchedulesFrom(key, url, read_ok)
                => ENABLED (/\ request_icon(key, url, read_ok)
                            /\ last'.op = "request_icon"
                            /\ on_icon_ready_calls(last') = <<>>
                            /\ key \in in_flight'
                            /\ key \notin MemKeys(memory'))
    /\ (/\ channel # <<>>
        /\ Head(channel).signal = "succeeded"
        /\ Head(channel).arg \in ImagePayloads)
       => /\ Head(channel).key \in in_flight
          /\ ENABLED (/\ on_download_succeeded([fail_at |-> "none", remove_ok |-> TRUE])
                      /\ last'.op = "on_download_succeeded"
                      /\ on_icon_ready_calls(last') =
                            <<<<Head(channel).key,
                                DecodedIcon(Head(channel).arg)>>>>)

\* C15 witness: on_icon_ready was called inside a request_icon call that
\* resolved its key from disk, while the fetch of another key is still in
\* flight with its result waiting in the owner's event loop.
C15_Witness ==
    /\ last.op = "request_icon"
    /\ on_icon_ready_calls(last) = <<<<last.key, DecodedIcon(ImageOf(last.key))>>>>
    /\ last.key \in MemKeys(memory)
    /\ \E other \in in_flight : UndeliveredFor(other) = 1

\* the signals the step has added to the owner's event queue
NewSignals == SubSeq(channel', Len(channel) + 1, Len(channel'))

\* the outcome is an HTTP response
Responded(o) == o.exc = "none"

\* the outcome is a network or transport error: a requests.RequestException
TransportError(o) == o.exc \in RequestExceptions

\* the step is run(job, o) and emits exactly one signal, of the given kind,
\* for the key of the job
EmitsOne(job, o, signal) ==
    /\ run(job, o)
    /\ Len(NewSignals) = 1
    /\ NewSignals[1].signal = signal
    /\ NewSignals[1].key = job.key
    /\ signal = "succeeded" => NewSignals[1].arg = o.content

\* C16 as stated: for a response or a transport error the task emits
\* exactly one signal: succeeded with the body for any 2xx status with a
\* non-empty body, failed otherwise.
C16_Any2xxSucceeds ==
    \A job \in BagToSet(running) : \A o \in HttpOutcomes(job) :
        (Responded(o) \/ TransportError(o))
        => ENABLED EmitsOne(job, o,
              IF /\ Responded(o)
                 /\ o.status >= 200 /\ o.status <= 299
                 /\ o.content # ""
              THEN "succeeded" ELSE "failed")

\* C16 amended: the task emits succeeded with the body exactly for status
\* 200 with a non-empty body; every other status (the other 2xx included),
\* status 200 with an empty body and a requests.RequestException make it
\* emit failed; one signal in each of these cases, never both. When
\* requests.get raises another exception the task emits no signal.
C16_Only200Succeeds ==
    \A job \in BagToSet(running) : \A o \in HttpOutcomes(job) :
        IF Responded(o) \/ TransportError(o)
        THEN ENABLED EmitsOne(job, o,
                IF Responded(o) /\ o.status = 200 /\ o.content # ""
                THEN "succeeded" ELSE "failed")
        ELSE ENABLED (run(job, o) /\ NewSignals = <<>>)

\* C16 witness: a task that got status 206 with an image body has emitted
\* failed, and the signal waits in the owner's event queue.
C16_Witness ==
    /\ last.op = "run"
    /\ channel = <<[signal |-> "failed", key |-> last.key, arg |-> "HTTP 206"]>>
    /\ last.key \in in_flight

\* C17: under fair scheduling of the pool and of the owner's event loop,
\* every key that is in _in_flight is eventually out of it, whatever the
\* HTTP call of its task does, any exception it raises included.
C17_InFlightEventuallyRemoved ==
    \A key \in Keys : (key \in in_flight) ~> (key \notin in_flight)

\* never more tasks on pool threads than the pool has threads
PoolBounded == BagCardinality(running) <= max_workers

\* request_icon for a key that is to be fetched is accepted at once, however
\* many tasks are running or queued: the key enters _in_flight and its task
\* is appended to the queue of the pool
NeverBlocks ==
    \A key \in Keys :
        SchedulesFrom(key, UrlOf(key), TRUE)
        => ENABLED SchedulesFetch(key, UrlOf(key))

\* tasks wait in the queue exactly while all threads are busy or until the
\* pool takes them, oldest first
QueueDrains ==
    (pool_queue # <<>> /\ BagCardinality(running) < max_workers)
    => ENABLED (/\ pool_start
                /\ pool_queue' = Tail(pool_queue)
                /\ BagIn(Head(pool_queue), running'))

\* C18: at most max_workers tasks run at any moment; request_icon never
\* waits for a free thread: a key to be fetched is always accepted into
\* _in_flight and its task queued; and under fair scheduling every queued
\* task is eventually run by a pool thread.
C18_BoundedPoolNoBlocking ==
    /\ [](PoolBounded /\ NeverBlocks /\ QueueDrains)
    /\ \A key \in Keys : (QueuedFor(key) >= 1) ~> (RunningFor(key) >= 1)

\* C18 witness: one key more than the pool has threads was requested: every
\* thread is busy, the task of the last key requested waits in the queue, and
\* all the keys are in _in_flight.
C18_Witness ==
    /\ last.op = "request_icon"
    /\ BagCardinality(running) = max_workers
    /\ Len(pool_queue) = 1
    /\ pool_queue[1].key = last.key
    /\ Cardinality(in_flight) = max_workers + 1
    /\ last.key \in in_flight

\* the state the delivery of the result of key leaves: key is out of
\* _in_flight, no result of key is left in the owner's queue, and a
\* request_icon for key would not stop at the in-flight test
Delivered(key) ==
    /\ key \notin in_flight'
    /\ JobsFor(key)' = 0
    /\ request_branch(key, UrlOf(key), TRUE)' # "in_flight"

\* the handler can run for the result at the head of the owner's queue with
\* this outcome of the write to disk
CanStore(io) ==
    Head(channel).arg \in ImagePayloads
    => io_faults + StoreFaults(disk, Head(channel).key, io) <= MaxIoFaults

\* C19: the handler that delivers the result of key removes key from
\* _in_flight in the same step of the owner: right after the delivery key is
\* not in _in_flight and a request_icon for key does not stop at the
\* in-flight test; a key is in _in_flight only on account of a fetch whose
\* result was not delivered; and while a fetch of key is outstanding no
\* request_icon schedules another.
C19_AtomicRemovalAndDelivery ==
    \A key \in Keys :
        /\ (channel # <<>> /\ Head(channel).key = key)
           => IF Head(channel).signal = "failed"
              THEN ENABLED (on_download_failed /\ Delivered(key))
              ELSE \A io \in StoreOutcomes :
                      CanStore(io)
                      => ENABLED (on_download_succeeded(io) /\ Delivered(key))
        /\ (last.op \in HandlerOps /\ last.key = key) => key \notin in_flight
        /\ key \in in_flight => JobsFor(key) + DiedFor(key) = 1
        /\ JobsFor(key) >= 1
           => \A url \in UrlArgs(key) : \A read_ok \in BOOLEAN :
                 ~ENABLED (/\ request_icon(key, url, read_ok)
                           /\ <<pool_queue, submitted>>' # <<pool_queue, submitted>>)

\* C19 witness: the failure of one key has just been delivered and the key
\* is out of _in_flight, while the result of another key, still in
\* _in_flight, waits behind it in the owner's queue.
C19_Witness ==
    /\ last.op = "on_download_failed"
    /\ last.key \notin in_flight
    /\ JobsFor(last.key) = 0
    /\ \E other \in in_flight : channel # <<>> /\ Head(channel).key = other

\* the content of the target file of key in directory d
TargetOf(d, key) ==
    IF cache_path(key) \in DOMAIN d THEN <<"file", d[cache_path(key)]>>
    ELSE <<"absent">>

\* the owner is about to process a fetched payload that decodes, which is
\* the one place where _store_to_disk is called
AboutToStore ==
    /\ channel # <<>>
    /\ Head(channel).signal = "succeeded"
    /\ Head(channel).arg \in ImagePayloads

\* the handler step with this outcome of the file operations: the directory
\* ends as the last point of the write; the target holds the payload when no
\* operation failed and is unchanged otherwise; the temporary file is gone
\* unless its removal failed; and the handler runs to its end
StoresAtomically(key, payload, io) ==
    /\ on_download_succeeded(io)
    /\ LET points == store_to_disk_points(disk, key, payload, io)
       IN disk' = points[Len(points)]
    /\ IF io.fail_at = "none"
       THEN /\ TargetOf(disk', key) = <<"file", payload>>
            /\ tmp_path(key) \notin DOMAIN disk'
       ELSE /\ TargetOf(disk', key) = TargetOf(disk, key)
            /\ io.remove_ok => tmp_path(key) \notin DOMAIN disk'
    /\ \A other \in Keys \ {key} : TargetOf(disk', other) = TargetOf(disk, other)
    /\ key \in MemKeys(memory')
    /\ key \notin DOMAIN failed_until'
    /\ last'.emitted = <<<<key, DecodedIcon(payload)>>>>

\* C20: _store_to_disk writes a temporary sibling and renames it over the
\* target: after every file operation of the call the target of key is what
\* it was before the call (absent or the previous content) or the complete
\* payload; when an operation fails the target ends unchanged, the temporary
\* file is removed unless the removal fails too, and the caller goes on as if
\* the write had succeeded.
C20_AtomicDiskWrite ==
    AboutToStore =>
        LET key == Head(channel).key
            payload == Head(channel).arg
        IN \A io \in StoreOutcomes :
              /\ LET points == store_to_disk_points(disk, key, payload, io)
                 IN \A i \in 1..Len(points) :
                       TargetOf(points[i], key) \in
                          {TargetOf(disk, key), <<"file", payload>>}
              /\ CanStore(io) => ENABLED StoresAtomically(key, payload, io)

\* C20 witness: the write of a fetched icon failed at os.replace and the
\* removal of the temporary file failed as well: the temporary file holds the
\* payload, the target still holds its previous content, and the handler
\* has put the icon in memory and emitted icon_ready.
C20_Witness ==
    /\ last = Step("on_download_succeeded", last.key,
                   <<<<last.key, DecodedIcon(ImageOf(last.key))>>>>)
    /\ tmp_path(last.key) \in DOMAIN disk
    /\ disk[tmp_path(last.key)] = ImageOf(last.key)
    /\ TargetOf(disk, last.key) = <<"file", "bad">>
    /\ last.key \in MemKeys(memory)
    /\ io_faults = 1

\* the handler step in which a file operation of the write raises OSError:
\* the icon decoded from the payload is in memory and is what get_icon
\* returns, key has no failure record and is out of _in_flight,
\* icon_ready(key, icon) is emitted once, and the file of key is as it was
DeliversDespiteWriteFailure(key, payload, io) ==
    /\ on_download_succeeded(io)
    /\ io.fail_at # "none"
    /\ MemGet(memory', key) = DecodedIcon(payload)
    /\ get_icon_returns(key)' = DecodedIcon(payload)
    /\ key \notin DOMAIN failed_until'
    /\ key \notin in_flight'
    /\ last' = Step("on_download_succeeded", key, <<<<key, DecodedIcon(payload)>>>>)
    /\ TargetOf(disk', key) = TargetOf(disk, key)

\* C21: when the fetch of key succeeded with bytes that decode and the write
\* of the bytes to disk fails (at open, write or replace), the handler still
\* puts key in memory, still clears the failure record of key and still
\* emits icon_ready(key, icon); the file of key stays as it was, so key is
\* served from memory only.
C21_WriteFailureStillDelivers ==
    \A key \in Keys : \A payload \in ImagePayloads : \A io \in StoreOutcomes :
        (/\ AboutToStore
         /\ Head(channel).key = key
         /\ Head(channel).arg = payload
         /\ io.fail_at # "none"
         /\ CanStore(io))
        => ENABLED DeliversDespiteWriteFailure(key, payload, io)

\* C21 witness: the second fetch of a key, made after its first one failed
\* and the cooldown ran out, has succeeded while the write to the empty cache
\* directory failed: the icon is in memory, the failure record is gone,
\* icon_ready was emitted, and no file of the key exists.
C21_Witness ==
    /\ last = Step("on_download_succeeded", last.key,
                   <<<<last.key, DecodedIcon(ImageOf(last.key))>>>>)
    /\ io_faults = 1
    /\ cache_path(last.key) \notin DOMAIN disk
    /\ MemGet(memory, last.key) = DecodedIcon(ImageOf(last.key))
    /\ failed_until = EmptyFn
    /\ submitted = 2
    /\ now >= RETRY_COOLDOWN_SECONDS
    /\ touched = <<last.key>>

\* _load_from_disk yields no icon for key: the file is absent, or reading it
\* raises OSError, or its bytes do not decode
DiskMiss(key, read_ok) ==
    \/ cache_path(key) \notin DOMAIN disk
    \/ ~read_ok
    \/ disk[cache_path(key)] \notin ImagePayloads

\* a request_icon(key, url) step that takes the file of key for a miss: it
\* schedules a fetch when a url is given and nothing otherwise, records no
\* cooldown, puts nothing in memory, emits nothing, and leaves the files alone
MissGoesOn(key, url, read_ok) ==
    /\ request_icon(key, url, read_ok)
    /\ failed_until' = failed_until
    /\ memory' = memory
    /\ disk' = disk
    /\ last' = last \/ last' = Step("request_icon", key, <<>>)
    /\ IF url \in {NoUrl, ""}
       THEN UNCHANGED <<in_flight, pool_queue, running, channel, submitted>>
       ELSE /\ in_flight' = in_flight \cup {key}
            /\ pool_queue' = Append(pool_queue, [key |-> key, url |-> url])
            /\ submitted' = submitted + 1
            /\ UNCHANGED <<running, channel>>

\* C22: when key is not in memory, not in flight and not cooling down and
\* its file is absent, unreadable or does not decode, request_icon(key, url)
\* runs to its end, schedules a fetch when url is given, does nothing when it
\* is not, and records no cooldown for key.
C22_DiskMissIsOnlyAMiss ==
    \A key \in Keys : \A url \in UrlArgs(key) \cup {""} : \A read_ok \in BOOLEAN :
        (/\ key \notin MemKeys(memory)
         /\ key \notin in_flight
         /\ ~Cooling(key)
         /\ DiskMiss(key, read_ok)
         /\ url \notin {NoUrl, ""} => submitted < MaxJobs
         /\ io_faults + LoadFaults(disk, key, read_ok) <= MaxIoFaults)
        => ENABLED MissGoesOn(key, url, read_ok)

\* C22 witness: request_icon has scheduled the fetch of a key whose file is
\* on disk with bytes that do not decode; no cooldown is recorded for it.
C22_Witness ==
    /\ last = Step("request_icon", last.key, <<>>)
    /\ cache_path(last.key) \in DOMAIN disk
    /\ disk[cache_path(last.key)] \notin ImagePayloads
    /\ QueuedFor(last.key) = 1
    /\ last.key \in in_flight
    /\ last.key \notin DOMAIN failed_until
    /\ last.key \notin MemKeys(memory)

\* key has a failure record whose deadline the clock has reached: the test
\* of request_icon, failed_until > time.time(), fails for it
Expired(key) == key \in DOMAIN failed_until /\ failed_until[key] <= now

\* the operations of the cache that take a key
KeyOps == {"get_icon", "request_icon", "on_download_succeeded", "on_download_failed"}

\* C23 as stated: no failure record whose deadline has passed is left once a
\* later operation on its key has run.
C23_NoExpiredRecordAfterOperation ==
    \A key \in Keys :
        Expired(key) => ~(last.op \in KeyOps /\ last.key = key)

\* an expired record is passed over: request_icon for its key goes on to the
\* disk and to the pool as it does for a key with no record
ExpiredIsIgnored ==
    \A key \in Keys : \A url \in UrlArgs(key) : \A read_ok \in BOOLEAN :
        (Expired(key) /\ key \notin MemKeys(memory) /\ key \notin in_flight)
        => ReadsDisk(request_branch(key, url, read_ok))

\* what a step may do to the failure record of key: only the handler of a
\* successful, decodable fetch of key removes it (and it does), only the
\* handler of a failure of key sets or changes its deadline, and
\* request_icon for key leaves an expired record where it is
RecordLifeCycle ==
    \A key \in Keys :
        /\ (key \in DOMAIN failed_until /\ key \notin DOMAIN failed_until')
           => (last'.op = "init" \/ FetchResolves(key))
        /\ FetchResolves(key) => key \notin DOMAIN failed_until'
        /\ (/\ key \in DOMAIN failed_until'
            /\ key \in DOMAIN failed_until => failed_until'[key] # failed_until[key])
           => /\ FailureStep \/ DecodeFailureStep
              /\ Head(channel).key = key
        /\ Expired(key)
           => \A url \in UrlArgs(key) : \A read_ok \in BOOLEAN :
                 request_icon(key, url, read_ok)
                 => /\ key \in DOMAIN failed_until'
                    /\ failed_until'[key] = failed_until[key]

\* C23 amended: within one process a failure record of key is removed only
\* by the next successful fetch of key, and replaced only by the next
\* failure of key; a record whose deadline has passed is not removed: it
\* stays in _failed_until, whatever operations on key run, and request_icon
\* passes it over as if it were absent.
C23_RemovedOnSuccessOnly == []ExpiredIsIgnored /\ [][RecordLifeCycle]_vars

\* C23 witness: the record of a key has expired, request_icon has scheduled
\* the second fetch of the key, the fetch has succeeded and its result waits
\* for the owner: the expired record is still in _failed_until.
C23_Witness ==
    \E key \in Keys :
        /\ Expired(key)
        /\ key \in in_flight
        /\ channel # <<>>
        /\ Head(channel) = [signal |-> "succeeded", key |-> key, arg |-> ImageOf(key)]
        /\ submitted = 2

\* the state of key as request_icon tells it, by its tests in their order:
\* in _memory, in _in_flight, a deadline still ahead, or none of these
KeyState(key) ==
    IF key \in MemKeys(memory) THEN "Resolved"
    ELSE IF key \in in_flight THEN "Resolving"
    ELSE IF Cooling(key) THEN "CoolingDown"
    ELSE "Absent"

\* the moves of the state machine as the claim lists them
ListedMoves ==
    {<<"Absent", "Resolving">>, <<"Resolving", "Resolved">>,
     <<"Resolving", "CoolingDown">>, <<"CoolingDown", "Absent">>}

\* C24 as stated: within one process each key moves only along
\* Absent -> Resolving -> Resolved and Resolving -> CoolingDown -> Absent.
C24_ListedMovesOnly ==
    [][last'.op # "init" =>
          \A key \in Keys :
              \/ KeyState(key)' = KeyState(key)
              \/ <<KeyState(key), KeyState(key)'>> \in ListedMoves]_vars

\* at most one of the tests of request_icon holds for a key
StatesExclusive ==
    \A key \in Keys :
        /\ ~(key \in MemKeys(memory) /\ key \in in_flight)
        /\ ~(key \in MemKeys(memory) /\ Cooling(key))
        /\ ~(key \in in_flight /\ Cooling(key))

\* whether the step is the operation that makes the move of key from one
\* state to another; no operation makes a move that is not on the list
MoveCause(key, from, to) ==
    CASE from = "Absent" /\ to = "Resolving" ->
            /\ last' = Step("request_icon", key, <<>>)
            /\ QueuedFor(key)' = 1
      [] from = "Absent" /\ to = "Resolved" ->
            /\ last'.op = "request_icon" /\ last'.key = key
            /\ last'.emitted = <<<<key, DecodedIcon(disk[cache_path(key)])>>>>
            /\ JobsFor(key)' = 0
      [] from = "Resolving" /\ to = "Resolved" -> FetchResolves(key)
      [] from = "Resolving" /\ to = "CoolingDown" ->
            /\ FailureStep \/ DecodeFailureStep
            /\ Head(channel).key = key
            /\ JobsFor(key) = 1
      [] from = "CoolingDown" /\ to = "Absent" ->
            /\ last'.op = "tick"
            /\ now' >= failed_until[key]
      [] from = "Resolved" /\ to = "Absent" ->
            /\ Len(memory) = max_items
            /\ memory[1].key = key
            /\ last'.emitted # <<>>
            /\ last'.key # key
      [] OTHER -> FALSE

\* every move of key in a step of one process is on the list and is made by
\* its operation
MoveCauses(key) ==
    \/ KeyState(key)' = KeyState(key)
    \/ MoveCause(key, KeyState(key), KeyState(key)')

\* C24 amended: within one process each key moves only along
\* Absent -> Resolving (fetch scheduled), Absent -> Resolved (resolved from
\* its file by request_icon, no fetch), Resolving -> Resolved (fetch
\* success), Resolving -> CoolingDown (fetch or decode failure),
\* CoolingDown -> Absent (the clock reaches the deadline) and
\* Resolved -> Absent (evicted as the least recently used entry when another
\* key is put in the full memory cache); a key enters CoolingDown only from
\* Resolving, with its fetch outstanding, and leaves CoolingDown only for
\* Absent, at or after its deadline.
C24_MovesWithDiskAndEviction ==
    []StatesExclusive /\ [][last'.op # "init" => \A key \in Keys : MoveCauses(key)]_vars

\* C24 witness: both unlisted moves in one step: a disk hit has resolved
\* one key without a fetch and evicted the least recently used key, whose
\* state is Absent again; no file operation has failed.
C24_Witness ==
    /\ last.op = "request_icon"
    /\ last.emitted # <<>>
    /\ KeyState(last.key) = "Resolved"
    /\ Len(touched) = max_items + 1
    /\ KeyState(touched[1]) = "Absent"
    /\ io_faults = 0

(* ----------------------------- main window ---------------------------- *)

\* the values of the attributes _dm_fallback_icon and _guild_fallback_icon
\* that on_conversations_loaded passes as fallback=: the icons
\* placeholder_dm_icon() and placeholder_guild_icon() are written to
\* return. The handlers of the window are modelled on a window that has
\* the two attributes; MainWindow.__init__, which is to bind them, is
\* main_window_init below, and with the names this module imports it
\* raises before it binds the first
dm_fallback_icon == [pixmap |-> "placeholder:D", size |-> DEFAULT_ICON_SIZE]

guild_fallback_icon == [pixmap |-> "placeholder:S", size |-> DEFAULT_ICON_SIZE]

\* the DM entries of the conversation loads: a user with an avatar, and an
\* entry with no user at all
WindowDms ==
    {[icon_user_id |-> "81", icon_avatar |-> "a1", icon_discriminator |-> "0",
      recipients |-> <<>>],
     [icon_user_id |-> PyNone, icon_avatar |-> PyNone,
      icon_discriminator |-> PyNone, recipients |-> <<>>]}

\* the guild entries of the conversation loads: one with an icon, one with
\* no icon hash, one with no id
WindowGuilds ==
    {[id |-> "7", icon_hash |-> "b2"],
     [id |-> "7", icon_hash |-> PyNone],
     [id |-> PyNone, icon_hash |-> "b2"]}

SeqsUpTo(S, n) == UNION {[1..k -> S] : k \in 0..n}

\* the payloads of ConversationWorker.result: DM entries and guild entries
Payloads ==
    {p \in {[dms |-> d, guilds |-> g] :
               d \in SeqsUpTo(WindowDms, MaxEntries),
               g \in SeqsUpTo(WindowGuilds, MaxEntries)} :
        Len(p.dms) + Len(p.guilds) <= MaxEntries}

Range(seq) == {seq[i] : i \in 1..Len(seq)}

\* _icon_items.get(key, [])
ItemsOf(items, key) == IF key \in DOMAIN items THEN items[key] ELSE <<>>

\* MainWindow._reset_icon_bindings
reset_icon_bindings(items) == EmptyFn

\* MainWindow._track_item_icon_key
track_item_icon_key(items, key, item) ==
    IF Falsy(key) THEN items
    ELSE With(items, key, Append(ItemsOf(items, key), item))

(* the tree of the window. Its items are the two roots, under the first the
   DM items, under the second the guild items, and under a guild item its
   category items and channel items. An item is named by where it is: a DM
   item and a guild item by the number it has as a consumer of icons (the
   DM items come first), a category item by its guild item and its id, a
   channel item by its guild item, the category it is put under and its
   place among the channel items of the guild. The check state of a DM or
   channel item is Checked or Unchecked (session.checked holds the checked
   ones); a guild or category item has a check state of its own
   (session.states), which the window sets from the states of its children
   and Qt sets when the user clicks the check box of the item. *)

\* the id of the category item a channel item is put under: its parent_id,
\* when a category of the guild has that id
CategoryOf(ch, channels) ==
    LET parent_id == Get(ch, "parent_id", PyNone)
    IN IF /\ ~Falsy(parent_id)
          /\ \E i \in 1..Len(channels) :
                /\ Get(channels[i], "type", PyNone) = 4
                /\ Get(channels[i], "id", PyNone) = parent_id
       THEN parent_id ELSE ""

\* the DM items that are exportable leaves (the DM has an id), in the order
\* in which on_conversations_loaded adds them to the first root
DmLeaves(payload) ==
    LET with_id == SelectSeq([i \in 1..Len(payload.dms) |->
                                 [dm |-> payload.dms[i], pos |-> i]],
                             LAMBDA e : ~Falsy(Get(e.dm, "id", PyNone)))
    IN [i \in 1..Len(with_id) |->
           [guild |-> 0, category |-> "", pos |-> with_id[i].pos,
            stable_id |-> "dm:" \o with_id[i].dm.id]]

\* the channel items of a guild item that are exportable leaves: the text
\* and news channels of the guild that have an id, in the order in which
\* on_conversations_loaded makes their items, by position and name
ChannelLeaves(item, channels) ==
    LET exportable == sorted_by_position_name(
                          SelectSeq(channels, LAMBDA c :
                              Get(c, "type", PyNone) \in {0, 5}))
        with_id == SelectSeq([i \in 1..Len(exportable) |->
                                 [ch |-> exportable[i], pos |-> i]],
                             LAMBDA e : ~Falsy(Get(e.ch, "id", PyNone)))
    IN [i \in 1..Len(with_id) |->
           [guild |-> item,
            category |-> CategoryOf(with_id[i].ch, channels),
            pos |-> with_id[i].pos,
            stable_id |-> "channel:" \o with_id[i].ch.id]]

\* the category items of a guild item that are kept in category_items (the
\* category has an id), in the order in which they are added to the guild
\* item, by position and name
CategoryParents(item, channels) ==
    LET categories ==
            SelectSeq(sorted_by_position_name(
                          SelectSeq(channels, LAMBDA c :
                              Get(c, "type", PyNone) = 4)),
                      LAMBDA c : ~Falsy(Get(c, "id", PyNone)))
    IN [i \in 1..Len(categories) |->
           [guild |-> item, category |-> categories[i].id]]

\* the guild item with the given number as a consumer of icons
GuildItem(item) == [guild |-> item, category |-> ""]

RECURSIVE CategoriesVisit(_, _)
\* the category items of a sequence, each followed by the leaves under it
CategoriesVisit(categories, leaves) ==
    IF categories = <<>> THEN <<>>
    ELSE <<Head(categories)>>
         \o SelectSeq(leaves,
                      LAMBDA l : l.category = Head(categories).category)
         \o CategoriesVisit(Tail(categories), leaves)

RECURSIVE TooltipItemsFrom(_, _)
\* the guild items, category items and channel leaves of the guilds from
\* the g-th on whose tooltip can show an id, in the order in which
\* _refresh_all_item_tooltips visits them: a guild item, then its category
\* items, each followed by its channel items, then the channel items put
\* under the guild item itself
TooltipItemsFrom(payload, g) ==
    IF g > Len(payload.guilds) THEN <<>>
    ELSE LET guild == payload.guilds[g]
             item == Len(payload.dms) + g
             channels == Get(guild, "channels", <<>>)
             leaves == ChannelLeaves(item, channels)
         IN (IF Falsy(Get(guild, "id", PyNone)) THEN <<>>
             ELSE <<GuildItem(item)>>)
            \o CategoriesVisit(CategoryParents(item, channels), leaves)
            \o SelectSeq(leaves, LAMBDA l : l.category = "")
            \o TooltipItemsFrom(payload, g + 1)

\* the exportable leaves on_conversations_loaded puts into the tree. A leaf
\* is under the DM root (guild 0) or under a guild item, directly or in a
\* category
LeavesOf(payload) ==
    Range(DmLeaves(payload))
    \cup UNION {Range(ChannelLeaves(Len(payload.dms) + g,
                                    Get(payload.guilds[g], "channels", <<>>)))
                   : g \in 1..Len(payload.guilds)}

\* the checkable parents of the tree: the guild items and the category
\* items that have exportable leaves below them (_disable_parent_if_empty
\* makes the others unavailable)
ParentsOf(leaves) ==
    {[guild |-> l.guild, category |-> ""] : l \in {x \in leaves : x.guild # 0}}
    \cup {[guild |-> l.guild, category |-> l.category] :
             l \in {x \in leaves : x.category # ""}}

\* the exportable leaves below a parent item
LeavesBelow(parent, leaves) ==
    {l \in leaves : /\ l.guild = parent.guild
                    /\ parent.category # "" => l.category = parent.category}

\* an item that is neither an exportable leaf nor a checkable parent: a
\* root
OtherItem == [guild |-> 0, category |-> ""]

\* an item of a tree that has been cleared since
DeletedItem == [guild |-> 0, category |-> "deleted"]

\* item.parent(): the category item or the guild item of a channel item,
\* the guild item of a category item, a root for a DM item and a guild item
ParentItem(item) ==
    IF "pos" \in DOMAIN item /\ item.category # ""
    THEN [guild |-> item.guild, category |-> item.category]
    ELSE IF "pos" \in DOMAIN item \/ item.category # ""
    THEN GuildItem(item.guild)
    ELSE OtherItem

\* len(_collect_checked_targets()): the checked leaves, one per stable id
collect_checked_targets(checked) == Cardinality({l.stable_id : l \in checked})

\* item.checkState(0)
check_state(ses, item) ==
    IF item \in ses.leaves
    THEN IF item \in ses.checked THEN "Checked" ELSE "Unchecked"
    ELSE IF item \in DOMAIN ses.states THEN ses.states[item]
    ELSE "Unchecked"

\* item.setCheckState(0, state), for the state of the item itself
set_check_state(ses, item, state) ==
    IF item \in ses.leaves
    THEN [ses EXCEPT !.checked = IF state = "Checked" THEN @ \cup {item}
                                 ELSE @ \ {item}]
    ELSE IF item \in DOMAIN ses.states
    THEN [ses EXCEPT !.states = [@ EXCEPT ![item] = state]]
    ELSE ses

\* MainWindow._derive_parent_state: from the check states of the children
\* of the item that are exportable leaves or checkable parents with leaves
derive_parent_state(ses, parent) ==
    LET child_states ==
            {check_state(ses, l) :
                l \in {x \in ses.leaves : ParentItem(x) = parent}}
            \cup {ses.states[p] :
                     p \in {q \in DOMAIN ses.states : ParentItem(q) = parent}}
    IN IF child_states = {} THEN "Unchecked"
       ELSE IF child_states = {"Checked"} THEN "Checked"
       ELSE IF child_states = {"Unchecked"} THEN "Unchecked"
       ELSE "PartiallyChecked"

RECURSIVE recompute_ancestor_states(_, _)
\* MainWindow._recompute_ancestor_states: from the cursor up to the root,
\* every checkable parent gets the state derived from its children
recompute_ancestor_states(ses, cursor) ==
    IF cursor = OtherItem THEN ses
    ELSE recompute_ancestor_states(
             IF cursor \in DOMAIN ses.states
             THEN set_check_state(ses, cursor, derive_parent_state(ses, cursor))
             ELSE ses,
             ParentItem(cursor))

\* MainWindow._recompute_subtree_parent_states: the checkable parents among
\* the children of the node (category items, whose children are leaves)
\* first, then the node
recompute_subtree_parent_states(ses, node) ==
    LET children == {q \in DOMAIN ses.states : ParentItem(q) = node}
        below == [ses EXCEPT !.states =
                     [q \in DOMAIN @ |->
                         IF q \in children THEN derive_parent_state(ses, q)
                         ELSE @[q]]]
    IN IF node \in DOMAIN ses.states
       THEN set_check_state(below, node, derive_parent_state(below, node))
       ELSE below

\* MainWindow._parent_toggle_intent
parent_toggle_intent(current_state) ==
    IF current_state = "Unchecked" THEN "Checked" ELSE "Unchecked"

\* MainWindow._apply_parent_intent: the leaves below the item get the
\* target state (_set_descendant_leaf_state), then the states of the
\* checkable parents of the subtree and of the ancestors are derived again
apply_parent_intent(ses, item, target_state) ==
    LET below == LeavesBelow(item, ses.leaves)
    IN IF below = {} THEN set_check_state(ses, item, "Unchecked")
       ELSE recompute_ancestor_states(
                recompute_subtree_parent_states(
                    [ses EXCEPT !.checked =
                        IF target_state = "Checked" THEN @ \cup below
                        ELSE @ \ below],
                    item),
                ParentItem(item))

\* tree.clear(): the items and their check states are gone, and with them
\* the item under a mouse button that is down; _pending_parent_intent keeps
\* the item it names, which is in no tree
tree_clear(ses) ==
    [ses EXCEPT !.has_roots = FALSE, !.leaves = {}, !.tooltip_items = <<>>,
                !.checked = {}, !.states = [p \in {} |-> "Unchecked"],
                !.pressed = <<>>,
                !.pending = IF @ = <<>> THEN @ ELSE <<DeletedItem, @[2]>>]

\* the tree on_conversations_loaded builds: the roots, the exportable
\* leaves and the checkable parents with leaves, all Unchecked, and of
\* these the items whose tooltip can show an id, in the order of the visit
tree_build(ses, payload) ==
    LET leaves == LeavesOf(payload)
        parents == ParentsOf(leaves)
    IN [tree_clear(ses) EXCEPT
          !.has_roots = TRUE,
          !.leaves = leaves,
          !.states = [p \in parents |-> "Unchecked"],
          !.tooltip_items =
              IF leaves = {} THEN <<>>
              ELSE SelectSeq(DmLeaves(payload) \o TooltipItemsFrom(payload, 1),
                             LAMBDA item : item \in leaves \cup parents)]

\* MainWindow.on_tree_item_changed outside _tree_syncing, for the
\* itemChanged of any change of an item (check state, icon, tooltip). For
\* an exportable leaf the states of its ancestors are derived again. A
\* checkable parent with leaves gives them the pending intent, when it is
\* the item of the intent, and otherwise the check state it has itself,
\* Checked or, for a partially checked item too, Unchecked.
\* _selected_targets is collected again
on_tree_item_changed(ses, item) ==
    LET handled ==
            IF item \in ses.leaves
            THEN recompute_ancestor_states(
                     set_check_state(ses, item,
                         IF check_state(ses, item) = "Checked"
                         THEN "Checked" ELSE "Unchecked"),
                     ParentItem(item))
            ELSE IF item \notin DOMAIN ses.states THEN ses
            ELSE IF LeavesBelow(item, ses.leaves) = {}
            THEN set_check_state(ses, item, "Unchecked")
            ELSE LET target_state ==
                         IF ses.pending # <<>> /\ ses.pending[1] = item
                         THEN ses.pending[2]
                         ELSE IF check_state(ses, item) = "Checked"
                         THEN "Checked" ELSE "Unchecked"
                 IN apply_parent_intent([ses EXCEPT !.pending = <<>>],
                                        item, target_state)
    IN [handled EXCEPT !.selected = collect_checked_targets(handled.checked)]

RECURSIVE items_changed(_, _)
\* itemChanged for the items of a sequence, one after the other
items_changed(ses, items) ==
    IF items = <<>> THEN ses
    ELSE items_changed(on_tree_item_changed(ses, Head(items)), Tail(items))

\* the last statements of on_conversations_loaded: _selected_targets = [],
\* and the Connect button is enabled
load_ends(ses) == [ses EXCEPT !.selected = 0, !.connect_enabled = TRUE]

\* on_conversations_loaded up to the end of its loops: the tree is built,
\* and with no entry to go through the slot ends at once
tree_loaded(ses, payload) ==
    IF payload.dms = <<>> /\ payload.guilds = <<>>
    THEN load_ends(tree_build(ses, payload))
    ELSE tree_build(ses, payload)

\* the registry, the icons of the items and the check states, as
\* on_icon_ready reads and writes them, outside on_conversations_loaded
WindowUi ==
    [icon_items |-> icon_items, item_icon |-> item_icon,
     session |-> session, tree_syncing |-> FALSE]

\* item.setIcon(0, icon_obj) for the items of a sequence: each is a change
\* of the item, and outside on_conversations_loaded on_tree_item_changed
\* runs for it. The item of a DM is a leaf or unavailable, and its check
\* state stays; the item of a guild can be a checkable parent
set_icons(ui, items) ==
    IF ui.tree_syncing THEN ui.session
    ELSE items_changed(ui.session,
                       [i \in 1..Len(items) |-> GuildItem(items[i])])

\* on_icon_ready keeping the items that left the tree in the registry
on_icon_ready_keeps_dead(ui, tree, key, icon_obj) ==
    LET items == ItemsOf(ui.icon_items, key)
        still_alive == SelectSeq(items, LAMBDA item : item \in tree)
    IN IF ~Truthy(icon_obj) \/ items = <<>> THEN ui
       ELSE [ui EXCEPT
                !.item_icon = [item \in DOMAIN ui.item_icon |->
                                  IF item \in Range(still_alive) THEN icon_obj
                                  ELSE ui.item_icon[item]],
                !.session = set_icons(ui, still_alive)]

\* MainWindow.on_icon_ready; tree is the set of items for which
\* item.treeWidget() is the tree
on_icon_ready(ui, tree, key, icon_obj) ==
    LET items == ItemsOf(ui.icon_items, key)
        still_alive == SelectSeq(items, LAMBDA item : item \in tree)
    IN IF ~Truthy(icon_obj) \/ items = <<>> THEN ui
       ELSE [ui EXCEPT
                !.icon_items = IF still_alive # <<>>
                               THEN With(ui.icon_items, key, still_alive)
                               ELSE Without(ui.icon_items, key),
                !.item_icon = [item \in DOMAIN ui.item_icon |->
                                  IF item \in Range(still_alive) THEN icon_obj
                                  ELSE ui.item_icon[item]],
                !.session = set_icons(ui, still_alive)]

\* icon_ready is connected to on_icon_ready directly: the slot runs for every
\* emission of the step, inside the step
Notify(ui, tree, emitted) ==
    IF emitted = <<>> THEN ui
    ELSE on_icon_ready(ui, tree, emitted[1][1], emitted[1][2])

\* the owner thread is not inside on_conversations_loaded
Idle == loading = NotLoading /\ DOMAIN item_icon = in_tree

\* on_connect cancelling the tasks that wait in the pool
on_connect_cancels ==
    /\ Idle
    /\ icon_items' = reset_icon_bindings(icon_items)
    /\ in_tree' = {}
    /\ item_icon' = EmptyFn
    /\ pool_queue' = <<>>
    /\ in_flight' = in_flight \ {pool_queue[i].key : i \in 1..Len(pool_queue)}
    /\ last' = Step("on_connect", "", <<>>)
    /\ UNCHANGED <<loading, memory, failed_until, disk, running, channel, died,
                   now, submitted, ticks, io_faults, touched>>

\* what MainWindow.on_connect, once past its guards, does to the icons:
\* _reset_icon_bindings() and tree.clear() (lines 674-675); the icon cache
\* is not called, and the step is kept as the latest one. The whole handler,
\* with its guards, the Connect button and the start of the worker, is
\* connect_clicked
on_connect ==
    /\ Idle
    /\ icon_items' = reset_icon_bindings(icon_items)
    /\ in_tree' = {}
    /\ item_icon' = EmptyFn
    /\ last' = Step("on_connect", "", <<>>)
    /\ UNCHANGED <<loading, progvars>>

\* MainWindow.on_conversations_loaded, up to its loops: the icon bindings
\* are reset, the tree is cleared, and the entries wait to be gone through
on_conversations_loaded(payload) ==
    /\ Idle
    /\ icon_items' = reset_icon_bindings(icon_items)
    /\ in_tree' = {}
    /\ item_icon' = EmptyFn
    /\ loading' = payload
    /\ UNCHANGED vars

\* the entry the loops of on_conversations_loaded take next (the DMs come
\* first): its key and url, and the fallback icon of its kind
NextEntry ==
    IF loading.dms # <<>>
    THEN [key_url |-> resolve_dm_icon(Head(loading.dms)),
          fallback |-> dm_fallback_icon]
    ELSE [key_url |-> resolve_guild_icon(Head(loading.guilds)),
          fallback |-> guild_fallback_icon]

RestOfLoading ==
    IF loading.dms # <<>> THEN [loading EXCEPT !.dms = Tail(@)]
    ELSE [loading EXCEPT !.guilds = Tail(@)]

\* the QTreeWidgetItem the loop creates for the entry
NewItem == Cardinality(DOMAIN item_icon) + 1

\* MainWindow._apply_cached_or_request_icon for a new item
apply_cached_or_request_icon(item, key, url, fallback, read_ok) ==
    IF Falsy(key)
    THEN /\ item_icon' = With(item_icon, item, fallback)
         /\ UNCHANGED <<icon_items, vars>>
    ELSE LET tracked == track_item_icon_key(icon_items, key, item)
             cached == get_icon_returns(key)
         IN IF Truthy(cached)
            THEN /\ get_icon(key)
                 /\ icon_items' = tracked
                 /\ item_icon' = With(item_icon, item, cached)
            ELSE /\ request_icon(key, url, read_ok)
                 /\ LET ui == [icon_items |-> tracked,
                               item_icon |-> With(item_icon, item, fallback),
                               session |-> session, tree_syncing |-> TRUE]
                        after == Notify(ui, in_tree, StepEmits)
                    IN /\ icon_items' = after.icon_items
                       /\ item_icon' = after.item_icon

\* one round of a loop of on_conversations_loaded, up to the call of
\* _apply_cached_or_request_icon: the item exists and is not yet in the tree
load_item(read_ok) ==
    /\ loading # NotLoading
    /\ DOMAIN item_icon = in_tree
    /\ apply_cached_or_request_icon(NewItem, NextEntry.key_url[1],
                                    NextEntry.key_url[2], NextEntry.fallback,
                                    read_ok)
    /\ loading' = RestOfLoading
    /\ UNCHANGED in_tree

\* the end of the round: dms_root.addChild(dm_item) or
\* servers_root.addChild(guild_item) with what follows it in the round;
\* after the last round on_conversations_loaded ends
add_child ==
    /\ DOMAIN item_icon # in_tree
    /\ in_tree' = DOMAIN item_icon
    /\ session' = IF loading = NotLoading THEN load_ends(session) ELSE session
    /\ UNCHANGED <<icon_items, item_icon, loading, vars>>

\* the owner's event loop calls _on_download_succeeded, and icon_ready calls
\* on_icon_ready inside it
deliver_succeeded(io) ==
    /\ Idle
    /\ on_download_succeeded(io)
    /\ LET after == Notify(WindowUi, in_tree, StepEmits)
       IN /\ icon_items' = after.icon_items
          /\ item_icon' = after.item_icon
          /\ session' = after.session
    /\ UNCHANGED <<in_tree, loading>>

\* the owner's event loop calls _on_download_failed
deliver_failed ==
    /\ Idle
    /\ on_download_failed
    /\ UNCHANGED winvars

\* what requests.get does during a session of the window: the image, a
\* status other than 200, or an exception that is no RequestException
WindowOutcomes(job) ==
    {[exc |-> "none", status |-> 200, content |-> ImageOf(job.key)],
     [exc |-> "none", status |-> 404, content |-> ""],
     [exc |-> "UnicodeError", status |-> 0, content |-> ""]}

\* the file operations of a session of the window raise no OSError
StoreOk == [fail_at |-> "none", remove_ok |-> TRUE]

(* ------------------------- workers of the window ---------------------- *)

\* QThread.isRunning(): from start() until run() has returned. The thread
\* of the ConversationWorker is "running" until it emits the signal that
\* carries its outcome, "emitted" from then until run() returns, "finished"
\* afterwards; the thread of an export worker is "running" or "finished";
\* "none" is the attribute holding None
IsRunning(thread) == thread \in {"running", "emitted"}

\* the tokens _validated_token() returns: none, or a token
Tokens == {"", "token"}

\* the worker threads that run: those of the three attributes and those
\* whose worker object was replaced while it ran
RunningWorkers(kinds) ==
    Cardinality({k \in kinds : IsRunning(session[k])})
        + Cardinality({a \in session.abandoned : a \in kinds})

\* a new worker is assigned to an attribute and started
StartWorker(ses, kind) ==
    [ses EXCEPT ![kind] = "running",
                !.abandoned = IF IsRunning(ses[kind]) THEN @ \cup {kind} ELSE @]

\* what on_connect does to the window beside the icons: the Connect button
\* is disabled, tree.clear() removes the items and their check states,
\* _selected_targets = [], and a ConversationWorker is started
connect_starts(ses) ==
    [tree_clear(StartWorker(ses, "conversation")) EXCEPT
        !.connect_enabled = FALSE, !.selected = 0]

\* on_connect without the test of the running conversation worker
connect_clicked_unguarded(token) ==
    /\ session.connect_enabled
    /\ Idle
    /\ IF token = "" \/ session.is_export_running
       THEN UNCHANGED <<vars, winvars, session>>
       ELSE /\ on_connect
            /\ session' = connect_starts(session)

\* the Connect button is clicked: MainWindow.on_connect, which returns at
\* once without a token, while the conversation worker runs and while an
\* export runs, and otherwise clears the tree, the icon bindings and the
\* selection and starts a ConversationWorker
connect_clicked(token) ==
    /\ session.connect_enabled
    /\ Idle
    /\ IF \/ token = ""
          \/ IsRunning(session.conversation)
          \/ session.is_export_running
       THEN UNCHANGED <<vars, winvars, session>>
       ELSE /\ on_connect
            /\ session' = connect_starts(session)

\* the thread of the ConversationWorker emits result or error, the one
\* signal of a run; the signal is queued for the thread of the window
worker_emits(name) ==
    /\ session.conversation = "running"
    /\ Len(session.signals) < MaxSignals
    /\ session' = [session EXCEPT
          !.conversation = "emitted",
          !.signals = Append(@, <<"conversation", name>>)]
    /\ UNCHANGED <<vars, winvars>>

\* run() of the ConversationWorker returns; QThread.finished is connected
\* to the lambda that enables the Connect button
thread_ends ==
    /\ session.conversation = "emitted"
    /\ Len(session.signals) < MaxSignals
    /\ session' = [session EXCEPT
          !.conversation = "finished",
          !.signals = Append(@, <<"conversation", "finished">>)]
    /\ UNCHANGED <<vars, winvars>>

\* isRunning() of the ExportWorker or the BatchExportWorker of the window
\* turns false: its thread has ended
export_thread_ends(kind) ==
    /\ session[kind] = "running"
    /\ session' = [session EXCEPT ![kind] = "finished"]
    /\ UNCHANGED <<vars, winvars>>

\* MainWindow.on_conversation_error
on_conversation_error(ses) == [ses EXCEPT !.connect_enabled = TRUE]

\* MainWindow.on_export_finished
on_export_finished(ses) == [ses EXCEPT !.is_export_running = FALSE]

\* MainWindow.on_export_error
on_export_error(ses) == [ses EXCEPT !.is_export_running = FALSE]

\* MainWindow.on_batch_finished
on_batch_finished(ses) == [ses EXCEPT !.is_export_running = FALSE]

\* MainWindow.on_batch_error
on_batch_error(ses) == [ses EXCEPT !.is_export_running = FALSE]

\* the channels of a guild entry as the ConversationWorker sends them, in
\* the order of their positions: two categories at one position, the one
\* whose name comes first listed second; two text channels, one in each
\* category, at one position as well; and a news channel without an id,
\* which is put under the guild item
SessionChannels ==
    <<[id |-> "k", type |-> 4, position |-> 0, name |-> "beta"],
      [id |-> "j", type |-> 4, position |-> 0, name |-> "alpha"],
      [id |-> "c1", type |-> 0, position |-> 1, name |-> "general",
       parent_id |-> "k"],
      [id |-> "c3", type |-> 0, position |-> 1, name |-> "announce",
       parent_id |-> "j"],
      [type |-> 5, position |-> 3, name |-> "news"]>>

\* the guild entries of the payloads of a session: a guild with an icon,
\* categories and channels; a guild without an icon hash whose channels
\* could not be loaded; a guild without an id and without channels
SessionGuilds ==
    LET guild(id, icon_hash, channels, error) ==
            [id |-> id, name |-> "G", icon_hash |-> icon_hash,
             channels |-> channels, channels_error |-> error]
    IN {guild("7", "b2", SessionChannels, PyNone),
        guild("8", PyNone, <<>>, "Missing Access"),
        guild(PyNone, "b2", <<>>, PyNone)}

\* the payloads the conversation workers of a session send: nothing, or one
\* guild. Every DM has an icon of its own to fetch, and these sessions
\* fetch one icon
SessionPayloads ==
    {[dms |-> <<>>, guilds |-> <<>>]}
        \cup {[dms |-> <<>>, guilds |-> <<g>>] : g \in SessionGuilds}

\* the event loop of the window calls the slot of the oldest queued signal
\* of the ConversationWorker; for a result it is on_conversations_loaded,
\* which builds the tree in the rounds of its loops (load_item, add_child)
\* and ends at once when the payload has no entry
deliver_signal(payloads) ==
    /\ Idle
    /\ session.signals # <<>>
    /\ LET sig == Head(session.signals)
           rest == [session EXCEPT !.signals = Tail(@)]
       IN IF sig = <<"conversation", "result">>
          THEN \E payload \in payloads :
                  /\ on_conversations_loaded([dms |-> payload.dms,
                                              guilds |-> payload.guilds])
                  /\ session' = tree_loaded(rest, payload)
          ELSE /\ session' =
                     CASE sig = <<"conversation", "error">> ->
                             on_conversation_error(rest)
                       [] sig = <<"conversation", "finished">> ->
                             [rest EXCEPT !.connect_enabled = TRUE]
               /\ UNCHANGED <<vars, winvars>>

\* the event loop of the window calls the slot connected to the error or
\* the finished signal of its ExportWorker or BatchExportWorker. The window
\* starts these workers and connects their signals, and nothing else of
\* them belongs to the program text at hand: once a worker has been
\* started, each of its two slots can be called at any time, while its
\* thread runs or after it
export_slot_called(kind, name) ==
    /\ Idle
    /\ session[kind] # "none"
    /\ session' =
          CASE kind = "export" /\ name = "finished" -> on_export_finished(session)
            [] kind = "export" /\ name = "error" -> on_export_error(session)
            [] kind = "batch" /\ name = "finished" -> on_batch_finished(session)
            [] kind = "batch" /\ name = "error" -> on_batch_error(session)
    /\ UNCHANGED <<vars, winvars>>

\* the items of the tree a user can press: the leaves, the checkable
\* parents and, once the roots exist, the other items
TreeItems ==
    session.leaves \cup DOMAIN session.states
        \cup (IF session.has_roots THEN {OtherItem} ELSE {})

\* a mouse button goes down on an item and itemPressed calls
\* MainWindow.on_tree_item_pressed: the intent for a checkable parent with
\* leaves is kept, for any other item the kept one is dropped
on_tree_item_pressed(item) ==
    /\ Idle
    /\ session.pressed = <<>>
    /\ item \in TreeItems
    /\ session' = [session EXCEPT
          !.pressed = <<item>>,
          !.pending =
              IF /\ item \in DOMAIN session.states
                 /\ LeavesBelow(item, session.leaves) # {}
              THEN <<item, parent_toggle_intent(check_state(session, item))>>
              ELSE <<>>]
    /\ UNCHANGED <<vars, winvars>>

\* the mouse button goes up. Over the check box of the item it went down
\* on, a leaf or a checkable parent (_set_leaf_item_checkable,
\* _set_parent_item_checkable: ItemIsUserCheckable, not tristate), the view
\* sets the check state of the item, Unchecked for a checked item and
\* Checked for any other, and itemChanged calls on_tree_item_changed
tree_mouse_released(on_box) ==
    /\ Idle
    /\ session.pressed # <<>>
    /\ LET item == session.pressed[1]
           released == [session EXCEPT !.pressed = <<>>]
       IN session' =
             IF on_box /\ item \in session.leaves \cup DOMAIN session.states
             THEN on_tree_item_changed(
                     set_check_state(released, item,
                         IF check_state(released, item) = "Checked"
                         THEN "Unchecked" ELSE "Checked"),
                     item)
             ELSE released
    /\ UNCHANGED <<vars, winvars>>

\* MainWindow.on_tree_toggle_requested, for the space key on the current
\* item: the check state of a leaf is toggled, a checkable parent with
\* leaves gets its intent; setCheckState changes the item, and
\* on_tree_item_changed runs for it
on_tree_toggle_requested(item) ==
    /\ Idle
    /\ item \in TreeItems
    /\ session' =
          IF item \in session.leaves
          THEN on_tree_item_changed(
                  set_check_state(session, item,
                      IF check_state(session, item) = "Checked"
                      THEN "Unchecked" ELSE "Checked"),
                  item)
          ELSE IF /\ item \in DOMAIN session.states
                  /\ LeavesBelow(item, session.leaves) # {}
          THEN LET target_state ==
                       parent_toggle_intent(check_state(session, item))
               IN on_tree_item_changed(
                      set_check_state(
                          [session EXCEPT !.pending = <<item, target_state>>],
                          item, target_state),
                      item)
          ELSE session
    /\ UNCHANGED <<vars, winvars>>

\* MainWindow.on_show_ids_tooltips_toggled, the slot of the box 'Show IDs
\* in tooltips': _refresh_all_item_tooltips sets the tooltip of every item,
\* which changes each item whose tooltip has an id to show or to hide, and
\* on_tree_item_changed runs for it. The tooltips were set for the state of
\* the box when the tree was built, so every toggle changes them
on_show_ids_tooltips_toggled ==
    /\ Idle
    /\ session' = items_changed(session, session.tooltip_items)
    /\ UNCHANGED <<vars, winvars>>

\* MainWindow._start_single_export
start_single_export(ses) ==
    IF IsRunning(ses.export) \/ IsRunning(ses.batch)
    THEN ses
    ELSE [StartWorker(ses, "export") EXCEPT !.is_export_running = TRUE]

\* MainWindow._start_batch_export
start_batch_export(ses) ==
    IF IsRunning(ses.batch) \/ IsRunning(ses.export)
    THEN ses
    ELSE [StartWorker(ses, "batch") EXCEPT !.is_export_running = TRUE]

\* the Export button, enabled by _update_selection_ui while targets are
\* selected and no export runs, is clicked: MainWindow.on_export, which
\* returns without a token, without a checked target and when a check of
\* its other inputs fails, and otherwise starts a single export for one
\* target, a batch export for several
export_clicked(token, inputs_ok) ==
    /\ Idle
    /\ session.selected > 0 /\ ~session.is_export_running
    /\ LET targets == collect_checked_targets(session.checked)
       IN session' = IF token = "" \/ targets = 0 \/ ~inputs_ok THEN session
                     ELSE IF targets = 1
                     THEN start_single_export(session)
                     ELSE start_batch_export(session)
    /\ UNCHANGED <<vars, winvars>>

\* a session of the main window with its icon cache, shorter than a cooldown
\* and with a disk that works, in which the user clicks Connect and leaves
\* the items of the tree alone: the slots of the window and of the cache run
\* one at a time on the owner thread, the pool threads and the thread of
\* the ConversationWorker run beside them
WindowNext ==
    \/ /\ \E token \in Tokens : connect_clicked(token)
       /\ UNCHANGED <<resolver, worker, placeholder>>
    \/ /\ \E name \in {"result", "error"} : worker_emits(name)
       /\ UNCHANGED <<resolver, worker, placeholder>>
    \/ thread_ends /\ UNCHANGED <<resolver, worker, placeholder>>
    \/ /\ deliver_signal(Payloads)
       /\ UNCHANGED <<resolver, worker, placeholder>>
    \/ load_item(TRUE) /\ UNCHANGED restvars
    \/ add_child /\ UNCHANGED <<resolver, worker, placeholder>>
    \/ pool_start /\ UNCHANGED <<winvars, restvars>>
    \/ /\ \E job \in BagToSet(running) : \E o \in WindowOutcomes(job) : run(job, o)
       /\ UNCHANGED <<winvars, restvars>>
    \/ deliver_succeeded(StoreOk) /\ UNCHANGED <<resolver, worker, placeholder>>
    \/ deliver_failed /\ UNCHANGED restvars

WindowSpec == Init /\ [][WindowNext]_allvars

\* a session of the window in which the user also clicks and toggles
\* items, toggles the tooltips and exports
SessionNext ==
    \/ /\ \E token \in Tokens : connect_clicked(token)
       /\ UNCHANGED <<resolver, worker, placeholder>>
    \/ /\ \E name \in {"result", "error"} : worker_emits(name)
       /\ UNCHANGED <<resolver, worker, placeholder>>
    \/ thread_ends /\ UNCHANGED <<resolver, worker, placeholder>>
    \/ /\ \E kind \in {"export", "batch"} : \E name \in {"finished", "error"} :
             export_slot_called(kind, name)
       /\ UNCHANGED <<resolver, worker, placeholder>>
    \/ /\ \E kind \in {"export", "batch"} : export_thread_ends(kind)
       /\ UNCHANGED <<resolver, worker, placeholder>>
    \/ /\ deliver_signal(SessionPayloads)
       /\ UNCHANGED <<resolver, worker, placeholder>>
    \/ load_item(TRUE) /\ UNCHANGED restvars
    \/ add_child /\ UNCHANGED <<resolver, worker, placeholder>>
    \/ pool_start /\ UNCHANGED <<winvars, restvars>>
    \/ /\ \E job \in BagToSet(running) : \E o \in WindowOutcomes(job) : run(job, o)
       /\ UNCHANGED <<winvars, restvars>>
    \/ deliver_succeeded(StoreOk) /\ UNCHANGED <<resolver, worker, placeholder>>
    \/ deliver_failed /\ UNCHANGED restvars
    \/ /\ \E item \in TreeItems : on_tree_item_pressed(item)
       /\ UNCHANGED <<resolver, worker, placeholder>>
    \/ /\ \E on_box \in BOOLEAN : tree_mouse_released(on_box)
       /\ UNCHANGED <<resolver, worker, placeholder>>
    \/ /\ \E item \in TreeItems : on_tree_toggle_requested(item)
       /\ UNCHANGED <<resolver, worker, placeholder>>
    \/ on_show_ids_tooltips_toggled /\ UNCHANGED <<resolver, worker, placeholder>>
    \/ /\ \E token \in Tokens : \E inputs_ok \in BOOLEAN :
             export_clicked(token, inputs_ok)
       /\ UNCHANGED <<resolver, worker, placeholder>>

SessionSpec == Init /\ [][SessionNext]_allvars

\* the fetches of key that are outstanding or ended without a result
Outstanding(key) == JobsFor(key) + DiedFor(key)

\* unregistering every consumer leaves the fetch of key where it is: after
\* on_connect, and after on_conversations_loaded with any payload, key has no
\* consumer, is still in _in_flight, and its task or result is still there
UnregisterKeepsFetch(key) ==
    /\ ENABLED (/\ on_connect
                /\ icon_items' = EmptyFn
                /\ key \in in_flight'
                /\ UNCHANGED <<pool_queue, running, channel, died>>)
    /\ \A payload \in Payloads :
          ENABLED (/\ on_conversations_loaded(payload)
                   /\ icon_items' = EmptyFn
                   /\ key \in in_flight'
                   /\ UNCHANGED <<pool_queue, running, channel, died>>)

\* the handler step for the fetched payload of a key without consumers: the
\* decoded icon is in memory, the directory is what _store_to_disk leaves (the
\* payload in the file of key when no file operation fails), and
\* on_icon_ready changes nothing in the window
ResultWithoutConsumers(key, payload, io) ==
    /\ deliver_succeeded(io)
    /\ MemGet(memory', key) = DecodedIcon(payload)
    /\ disk' = store_to_disk(disk, key, payload, io)
    /\ io.fail_at = "none" => TargetOf(disk', key) = <<"file", payload>>
    /\ on_icon_ready_calls(last') = <<<<key, DecodedIcon(payload)>>>>
    /\ UNCHANGED winvars

\* within the process the number of fetches of key goes down only in the
\* step in which a handler of the owner takes the result of key
OnlyDeliveryEndsAFetch ==
    \A key \in Keys :
        Outstanding(key)' < Outstanding(key)
        => /\ last'.op \in HandlerOps
           /\ last'.key = key
           /\ Head(channel).key = key

\* C25: a scheduled fetch is never cancelled: no step but the delivery of
\* its result takes a task or a result away, and resetting the icon bindings
\* and clearing the tree (on_connect, on_conversations_loaded) leaves the
\* fetch outstanding; when its successful result arrives for a key without
\* consumers, the icon is still put in memory and the bytes on disk, and
\* on_icon_ready returns without changing anything.
C25_NoCancellation ==
    /\ [](\A key \in Keys :
            /\ (Idle /\ JobsFor(key) >= 1) => UnregisterKeepsFetch(key)
            /\ \A payload \in ImagePayloads : \A io \in StoreOutcomes :
                  (/\ Idle
                   /\ AboutToStore
                   /\ Head(channel).key = key
                   /\ Head(channel).arg = payload
                   /\ key \notin DOMAIN icon_items
                   /\ CanStore(io))
                  => ENABLED ResultWithoutConsumers(key, payload, io))
    /\ [][OnlyDeliveryEndsAFetch]_allvars

\* C25 witness: the item of the guild was registered when the fetch of its
\* icon was scheduled, the only fetch so far; on_connect then reset the
\* bindings and cleared the tree while the fetch was outstanding, and no
\* tree has been built since; the latest step is the delivery of the
\* result, which came after that on_connect: the icon is in memory, the
\* bytes are in the only file of the directory, and the window has no item
\* and no registration.
C25_Witness ==
    /\ last = Step("on_download_succeeded", "guild:7:b2",
                   <<<<"guild:7:b2", DecodedIcon(ImageOf("guild:7:b2"))>>>>)
    /\ submitted = 1
    /\ ~session.has_roots
    /\ session.conversation = "running"
    /\ icon_items = EmptyFn
    /\ item_icon = EmptyFn
    /\ in_tree = {}
    /\ loading = NotLoading
    /\ MemGet(memory, "guild:7:b2") = DecodedIcon(ImageOf("guild:7:b2"))
    /\ DOMAIN disk = {cache_path("guild:7:b2")}
    /\ disk[cache_path("guild:7:b2")] = ImageOf("guild:7:b2")

(* ---------------------------- resolver calls -------------------------- *)

\* the characters of the enumerated ids and discriminators: digits, a
\* letter, a sign and a blank
Alphabet == {"0", "7", "x", "-", " "}

RECURSIVE Strings(_)
\* the strings over Alphabet of length n at most
Strings(n) ==
    IF n = 0 THEN {""}
    ELSE LET shorter == Strings(n - 1)
         IN shorter \cup {c \o t : c \in Alphabet, t \in shorter}

\* ids and discriminators as the platform sends them, and strings int()
\* accepts or rejects for other reasons than a letter
SampleStrings ==
    {"0000", "1234", "4194304", "8388608", "123456789012345678",
     "175928847299117063", "80351110224678912", "+7", " 12 ", "1_0", "1__0",
     "\t7", "7\n", "\n7 ", "7\r"}

\* the str | None arguments of default_avatar_index
IndexInputs == {PyNone} \cup Strings(MaxStrLen) \cup SampleStrings

\* the first recipient of a DM entry
RecipientInputs ==
    {[id |-> i, avatar |-> a, discriminator |-> d] :
        i \in {PyNone, "81", "175928847299117063"},
        a \in {PyNone, "a1", "a2"},
        d \in {PyNone, "7"}}

\* the DM entries given to _resolve_dm_icon
DmInputs ==
    {[icon_user_id |-> i, icon_avatar |-> a, icon_discriminator |-> d,
      recipients |-> r] :
        i \in {PyNone, "", "81"},
        a \in {PyNone, "a1", "a2"},
        d \in {PyNone, "0", "1234"},
        r \in {<<>>} \cup {<<x>> : x \in RecipientInputs}}

\* the guild entries given to _resolve_guild_icon
GuildInputs ==
    {[id |-> i, icon_hash |-> h] :
        i \in {PyNone, "", "7", "8"},
        h \in {PyNone, "", "b2", "b3"}}

\* a caller about to call one of the three functions on some input
ResolveInit ==
    /\ WindowInit
    /\ OthersIdle({"session", "worker", "placeholder"})
    /\ \/ resolver \in {[fn |-> "default_avatar_index", args |-> <<u, d>>,
                         results |-> <<>>] :
                            u \in IndexInputs, d \in IndexInputs}
       \/ resolver \in {[fn |-> "resolve_dm_icon", args |-> <<dm>>,
                         results |-> <<>>] : dm \in DmInputs}
       \/ resolver \in {[fn |-> "resolve_guild_icon", args |-> <<g>>,
                         results |-> <<>>] : g \in GuildInputs}

\* the caller calls default_avatar_index(user_id, discriminator)
call_default_avatar_index ==
    /\ resolver.fn = "default_avatar_index"
    /\ Len(resolver.results) < MaxCalls
    /\ resolver' = [resolver EXCEPT !.results =
           Append(@, default_avatar_index(resolver.args[1], resolver.args[2]))]
    /\ UNCHANGED <<vars, winvars, session, worker, placeholder>>

\* the caller calls _resolve_dm_icon(dm)
call_resolve_dm_icon ==
    /\ resolver.fn = "resolve_dm_icon"
    /\ Len(resolver.results) < MaxCalls
    /\ resolver' = [resolver EXCEPT !.results =
           Append(@, resolve_dm_icon(resolver.args[1]))]
    /\ UNCHANGED <<vars, winvars, session, worker, placeholder>>

\* the caller calls _resolve_guild_icon(guild)
call_resolve_guild_icon ==
    /\ resolver.fn = "resolve_guild_icon"
    /\ Len(resolver.results) < MaxCalls
    /\ resolver' = [resolver EXCEPT !.results =
           Append(@, resolve_guild_icon(resolver.args[1]))]
    /\ UNCHANGED <<vars, winvars, session, worker, placeholder>>

ResolveNext ==
    \/ call_default_avatar_index
    \/ call_resolve_dm_icon
    \/ call_resolve_guild_icon

ResolveSpec == ResolveInit /\ [][ResolveNext]_allvars

(* ------------------------------- C26 ---------------------------------- *)

\* a str-or-None value that is present (true in Python)
Present(s) == ~Falsy(s)

\* the result of the first call of the caller
Result == resolver.results[1]

\* the results of the caller's calls are all the same
SameEveryCall ==
    \A i \in 1..Len(resolver.results) : resolver.results[i] = Result

\* the (id, avatar hash) pair of the participant of a DM entry
ParticipantPair(dm) == <<dm_fields(dm).user_id, dm_fields(dm).avatar_hash>>

\* a DM entry whose participant has both an id and an avatar hash
HasPair(dm) == Present(ParticipantPair(dm)[1]) /\ Present(ParticipantPair(dm)[2])

\* a guild entry with both an id and an icon hash
HasGuildPair(g) == Present(g.id) /\ Present(g.icon_hash)

\* C26: key resolution is deterministic and content-distinguishing. Every
\* call for one DM or guild entry returns the same (key, url); two DM
\* entries whose participant has the same (id, avatar hash) pair, wherever
\* the entry carries it and whatever its other fields, resolve to the same
\* key and url; two entries with the same id and different avatar hashes
\* resolve to different keys (and different urls); likewise for guilds with
\* their id and icon hash.
C26_DeterministicAndDistinguishing ==
    /\ SameEveryCall
    /\ (resolver.fn = "resolve_dm_icon" /\ resolver.results # <<>>
            /\ HasPair(resolver.args[1])) =>
         LET dm == resolver.args[1] IN
         \A other \in DmInputs :
            /\ ParticipantPair(other) = ParticipantPair(dm)
                  => resolve_dm_icon(other) = Result
            /\ (/\ HasPair(other)
                /\ ParticipantPair(other)[1] = ParticipantPair(dm)[1]
                /\ ParticipantPair(other)[2] # ParticipantPair(dm)[2])
                  => /\ resolve_dm_icon(other)[1] # Result[1]
                     /\ resolve_dm_icon(other)[2] # Result[2]
    /\ (resolver.fn = "resolve_guild_icon" /\ resolver.results # <<>>
            /\ HasGuildPair(resolver.args[1])) =>
         LET g == resolver.args[1] IN
         \A other \in GuildInputs :
            /\ (other.id = g.id /\ other.icon_hash = g.icon_hash)
                  => resolve_guild_icon(other) = Result
            /\ (HasGuildPair(other) /\ other.id = g.id
                    /\ other.icon_hash # g.icon_hash)
                  => /\ resolve_guild_icon(other)[1] # Result[1]
                     /\ resolve_guild_icon(other)[2] # Result[2]

\* a DM entry that carries its participant in the first recipient only has
\* been resolved twice, to the key and url of that participant
C26_Witness ==
    /\ resolver.fn = "resolve_dm_icon"
    /\ resolver.args[1].icon_user_id = PyNone
    /\ resolver.args[1].icon_avatar = PyNone
    /\ Len(resolver.results) = 2
    /\ resolver.results[2] =
          <<"dm:81:a2", "https://cdn.discordapp.com/avatars/81/a2.png?size=64">>

(* ------------------------------- C27 ---------------------------------- *)

RECURSIVE PlainDecimal(_)
\* a nonempty run of decimal digits
PlainDecimal(s) ==
    /\ s # ""
    /\ Head(s) \in Digits
    /\ Tail(s) = "" \/ PlainDecimal(Tail(s))

RECURSIVE DecimalValue(_)
\* the number a short run of decimal digits denotes
DecimalValue(s) ==
    IF s = "" THEN 0
    ELSE 10 * DecimalValue(SubSeq(s, 1, Len(s) - 1))
            + DigitValue(SubSeq(s, Len(s), Len(s)))

\* runs of digits short enough for their value to be computed as one number
ShortDecimal(s) == PlainDecimal(s) /\ Len(s) <= 9

\* a discriminator that is present and is not "0" or "0000"
LegacyDiscriminator(d) == Present(d) /\ d \notin {"0", "0000"}

\* the index of the three rules, for the arguments int() accepts
IndexByRule(user_id, discriminator) ==
    IF LegacyDiscriminator(discriminator)
    THEN IntMod(ParseInt(discriminator), 5)
    ELSE IF Present(user_id) THEN ShiftedMod6(ParseInt(user_id))
    ELSE 0

\* the default avatar key and url of a DM entry, from an index
DefaultPair(dm, index) ==
    LET id == dm_fields(dm).user_id
    IN <<"dm-default:" \o (IF Present(id) THEN id ELSE "unknown") \o ":"
             \o ToString(index),
         "https://cdn.discordapp.com/embed/avatars/" \o ToString(index % 6)
             \o ".png?size=64">>

\* C27: default_avatar_index is int(discriminator) mod 5 when a
\* discriminator is present and is not "0" or "0000", otherwise
\* (int(user_id) >> 22) mod 6 when a user id is present, otherwise 0 (for
\* short runs of digits compared with the arithmetic on the number itself,
\* for the documented literals with the values computed from them), and a
\* DM entry without the (id, avatar hash) pair resolves to the key
\* dm-default:<id or unknown>:<index> and the default avatar url of
\* index mod 6.
C27_DefaultAvatarIndex ==
    /\ (resolver.fn = "default_avatar_index" /\ resolver.results # <<>>) =>
         LET user_id == resolver.args[1]
             discriminator == resolver.args[2]
         IN /\ LegacyDiscriminator(discriminator) =>
                 /\ ParseInt(discriminator).ok
                       => Result = IndexByRule(user_id, discriminator)
                 /\ ShortDecimal(discriminator)
                       => Result = DecimalValue(discriminator) % 5
                 /\ discriminator = "1234" => Result = 4
            /\ (~LegacyDiscriminator(discriminator) /\ Present(user_id)) =>
                 /\ ParseInt(user_id).ok
                       => Result = IndexByRule(user_id, discriminator)
                 /\ ShortDecimal(user_id)
                       => Result = (DecimalValue(user_id) \div 2^22) % 6
                 /\ user_id = "123456789012345678" => Result = 0
                 /\ user_id = "175928847299117063" => Result = 2
                 /\ user_id = "80351110224678912" => Result = 5
            /\ (~LegacyDiscriminator(discriminator) /\ ~Present(user_id))
                 => Result = 0
    /\ (resolver.fn = "resolve_dm_icon" /\ resolver.results # <<>>
            /\ ~HasPair(resolver.args[1])) =>
         LET dm == resolver.args[1]
             f == dm_fields(dm)
         IN Result = DefaultPair(dm,
                        IndexByRule(IF Present(f.user_id) THEN f.user_id
                                    ELSE PyNone,
                                    IF Present(f.discriminator)
                                    THEN f.discriminator ELSE PyNone))

\* the documented literals: the discriminator "0" leaves the index to the
\* user id 123456789012345678
C27_Witness ==
    /\ resolver.fn = "default_avatar_index"
    /\ resolver.args = <<"123456789012345678", "0">>
    /\ resolver.results = <<0, 0>>

(* ------------------------------- C28 ---------------------------------- *)

\* a string that is present and that int() rejects with ValueError
NonNumeric(s) == Present(s) /\ ~ParseInt(s).ok

\* whatever the arguments of the caller are, before the call as after it,
\* the function has a value for them (no exception leaves it), an index
IndexCallReturns ==
    resolver.fn = "default_avatar_index"
      => default_avatar_index(resolver.args[1], resolver.args[2]) \in 0..5

\* C28 as stated: the index is in 0..5 and is 0 as soon as the
\* discriminator or the id is non-numeric.
C28_NonNumericYieldsZero ==
    (resolver.fn = "default_avatar_index" /\ resolver.results # <<>>) =>
        /\ Result \in 0..5
        /\ (NonNumeric(resolver.args[1]) \/ NonNumeric(resolver.args[2]))
              => Result = 0

\* C28, amended: for every pair of arguments the call returns an integer in
\* 0..5; the index is 0 when the argument the rules parse is non-numeric:
\* the discriminator when it is present and not "0" or "0000", the user id
\* otherwise. A non-numeric user id next to a numeric legacy discriminator
\* is never parsed, and the index is the discriminator's.
C28_FailsSoft ==
    /\ IndexCallReturns
    /\ (resolver.fn = "default_avatar_index" /\ resolver.results # <<>>) =>
         LET user_id == resolver.args[1]
             discriminator == resolver.args[2]
         IN /\ Result \in 0..5
            /\ (LegacyDiscriminator(discriminator)
                    /\ NonNumeric(discriminator)) => Result = 0
            /\ (~LegacyDiscriminator(discriminator)
                    /\ NonNumeric(user_id)) => Result = 0
            /\ (LegacyDiscriminator(discriminator)
                    /\ ~NonNumeric(discriminator) /\ NonNumeric(user_id))
                  => Result = IntMod(ParseInt(discriminator), 5)

\* a non-numeric discriminator next to a user id whose own index is not 0
C28_Witness ==
    /\ resolver.fn = "default_avatar_index"
    /\ resolver.args = <<"4194304", "x">>
    /\ resolver.results = <<0>>

(* ------------------------------- C29 ---------------------------------- *)

\* the loop of on_conversations_loaded is at a guild entry
AtGuild == loading.dms = <<>> /\ loading.guilds # <<>>

\* the items registered as consumers of some key
Registered ==
    UNION {Range(icon_items[key]) : key \in DOMAIN icon_items}

\* a guild entry with no id or no icon hash resolves to no key and no url
NoPairNoKey ==
    \A g \in GuildInputs \cup WindowGuilds \cup SessionGuilds :
        ~HasGuildPair(g) => resolve_guild_icon(g) = <<PyNone, PyNone>>

\* the round of the loop for such a guild: the new item shows the guild
\* placeholder, no consumer is registered and the icon cache is not called
KeylessGuildRound ==
    (AtGuild /\ loading' # loading /\ ~HasGuildPair(Head(loading.guilds))) =>
        /\ item_icon' = With(item_icon, NewItem, guild_fallback_icon)
        /\ icon_items' = icon_items
        /\ UNCHANGED vars

\* an item that is no consumer keeps the icon it shows while it exists
UnregisteredKeepsIcon ==
    \A item \in (DOMAIN item_icon \cap DOMAIN item_icon') \ Registered :
        /\ item_icon'[item] = item_icon[item]
        /\ item \notin UNION {Range(icon_items'[key]) : key \in DOMAIN icon_items'}

\* C29: a guild with a missing id or a missing icon hash produces no key
\* and no url; its item shows the static guild placeholder, then and for as
\* long as it exists, and for it no consumer is registered and no call of
\* the icon cache is made (no request_icon, no get_icon).
C29_KeylessGuildIsPlaceholderOnly ==
    /\ []NoPairNoKey
    /\ [][KeylessGuildRound /\ UnregisteredKeepsIcon]_allvars

\* the load that followed the first on_connect had one entry, a guild
\* without a key, and has ended: the item of the guild shows the
\* placeholder, nothing is registered, and the cache has done nothing
\* since its construction
C29_Witness ==
    /\ loading = NotLoading
    /\ session.has_roots
    /\ in_tree = {1}
    /\ item_icon[1] = guild_fallback_icon
    /\ icon_items = EmptyFn
    /\ last.op = "on_connect"
    /\ submitted = 0
    /\ memory = <<>>
    /\ touched = <<>>

(* ------------------------------- C30 ---------------------------------- *)

\* the icons icon_ready carries
ReadyIcons == {icon_from_bytes(payload) : payload \in ImagePayloads}

\* the consumers of key in the registry of ui that belong to the tree
AliveConsumers(ui, tree, key) ==
    SelectSeq(ItemsOf(ui.icon_items, key), LAMBDA item : item \in tree)

\* what one notification (key, icon) does to ui, and what a second one does
HandledOnce(ui, tree, key, icon) ==
    LET once == on_icon_ready(ui, tree, key, icon)
        twice == on_icon_ready(once, tree, key, icon)
        alive == AliveConsumers(ui, tree, key)
    IN /\ DOMAIN once.item_icon = DOMAIN ui.item_icon
       /\ \A item \in DOMAIN ui.item_icon :
             once.item_icon[item] =
                IF item \in Range(alive) THEN icon ELSE ui.item_icon[item]
       /\ ItemsOf(once.icon_items, key) = alive
       /\ key \in DOMAIN once.icon_items <=> alive # <<>>
       /\ DOMAIN once.icon_items \ {key} = DOMAIN ui.icon_items \ {key}
       /\ \A other \in DOMAIN ui.icon_items \ {key} :
             once.icon_items[other] = ui.icon_items[other]
       /\ twice = once

\* the registry and the icons at the moment request_icon, called for the
\* new item of the loop, emits icon_ready: the item is registered, shows
\* its fallback and is not yet in the tree
UiInsideLoad ==
    [icon_items |-> track_item_icon_key(icon_items, NextEntry.key_url[1],
                                        NewItem),
     item_icon |-> With(item_icon, NewItem, NextEntry.fallback),
     session |-> session, tree_syncing |-> TRUE]

\* every emission of icon_ready is handled by on_icon_ready, once, with the
\* registry and the tree of that moment
EmissionHandled ==
    (last' # last /\ last'.emitted # <<>>) =>
        LET key == last'.emitted[1][1]
            icon == last'.emitted[1][2]
            ui == IF last'.op = "request_icon" THEN UiInsideLoad ELSE WindowUi
            after == on_icon_ready(ui, in_tree, key, icon)
        IN /\ HandledOnce(ui, in_tree, key, icon)
           /\ icon_items' = after.icon_items
           /\ item_icon' = after.item_icon
           /\ session' = after.session

\* an item that is in no tree
DeadItem == 0

\* the window with further consumers registered for a key: an item that
\* left the tree, and after it the items of the tree
RegisteredUi(key) ==
    LET items == SelectSeq([i \in 1..Cardinality(DOMAIN item_icon) |-> i],
                           LAMBDA item : item \in in_tree)
    IN [WindowUi EXCEPT !.icon_items =
           With(icon_items, key,
                ItemsOf(icon_items, key) \o <<DeadItem>> \o items)]

\* C30: on_icon_ready(k, image) sets the image on every consumer registered
\* for k that belongs to the tree and on no other item, keeps exactly those
\* consumers registered for k (dropping k when none is left), leaves the
\* registrations of every other key as they are, and handling the same
\* notification a second time changes nothing more, in the icons, in the
\* registry and in the check states of the items; this holds for every key
\* and icon in every state of the window, whatever else is registered, and
\* every emission of icon_ready is handled that way.
C30_IndependentIdempotentNotification ==
    /\ [](\A key \in Keys :
              /\ \A icon \in ReadyIcons : HandledOnce(WindowUi, in_tree, key, icon)
              /\ \A other \in Keys :
                    HandledOnce(RegisteredUi(other), in_tree, key,
                                icon_from_bytes(ImageOf(key))))
    /\ [][EmissionHandled]_allvars

\* C30 witness: the mouse button went down on the unchecked guild item,
\* which kept the intent to check it, and is still down; the fetched icon
\* of the guild has been delivered since: the item shows it and is still
\* registered, and the change of the item has applied the intent, so both
\* channels are checked and no intent is kept.
C30_Witness ==
    /\ last.op = "on_download_succeeded"
    /\ last.key = "guild:7:b2"
    /\ in_tree = {1}
    /\ icon_items = [k \in {"guild:7:b2"} |-> <<1>>]
    /\ item_icon[1] = icon_from_bytes(ImageOf("guild:7:b2"))
    /\ session.pressed = <<GuildItem(1)>>
    /\ session.pending = <<>>
    /\ Cardinality(session.leaves) = 2
    /\ session.checked = session.leaves
    /\ session.states[GuildItem(1)] = "Checked"
    /\ session.selected = 2

(* ------------------------------- C31 ---------------------------------- *)

\* the step is a round of a loop of on_conversations_loaded
LoadRound == loading # NotLoading /\ loading' # loading

\* the step is the delivery of a fetched icon
FetchDelivered ==
    last' # last /\ last'.op = "on_download_succeeded" /\ last'.emitted # <<>>

\* the new item of a round whose key the cache has resolved when the round
\* ends (from memory or from its file) shows the icon of the cache and is a
\* consumer of the key
ResolvedInRoundShows ==
    LoadRound =>
        LET key == NextEntry.key_url[1] IN
        (Present(key) /\ key \in MemKeys(memory')) =>
            /\ item_icon'[NewItem] = MemGet(memory', key)
            /\ NewItem \in Range(ItemsOf(icon_items', key))

\* a delivered fetch gives its icon to every consumer of the key
FetchedShows ==
    FetchDelivered =>
        \A item \in Range(ItemsOf(icon_items, last'.key)) :
            item_icon'[item] = last'.emitted[1][2]

\* a consumer stays registered while it belongs to the tree
StaysRegistered ==
    \A key \in DOMAIN icon_items :
        \A item \in Range(icon_items[key]) \cap in_tree \cap in_tree' :
            item \in Range(ItemsOf(icon_items', key))

\* C31: while the tree is built, every DM or guild item whose key the cache
\* resolves (from memory, by a disk hit inside request_icon, or by a later
\* successful fetch) shows the resolved icon and is registered as a consumer
\* of its key, stays registered while it belongs to the tree, and all the
\* items of one key receive the icon of one resolution.
C31_ResolvedItemShowsIcon ==
    [][ResolvedInRoundShows /\ FetchedShows /\ StaysRegistered]_allvars

(* ------------------------------- C32 ---------------------------------- *)

\* C32: in every reachable state, the clock never going back, a key in
\* _in_flight is not in the memory cache and has no unexpired cooldown, and
\* a key in the memory cache has no unexpired cooldown.
C32_MutuallyExclusive ==
    /\ \A key \in in_flight :
          key \notin MemKeys(memory) /\ ~cooling_down(failed_until, key, now)
    /\ \A key \in MemKeys(memory) : ~cooling_down(failed_until, key, now)

\* a key is fetched again after its cooldown has expired (its record is
\* still there) while another key is in the memory cache
C32_Witness ==
    \E a, b \in Keys :
        /\ a \in in_flight /\ a \in DOMAIN failed_until
        /\ failed_until[a] <= now
        /\ b \in MemKeys(memory)

(* ------------------------------- C33 ---------------------------------- *)

\* the files of the cache directory that the step creates or changes
WrittenFiles ==
    {p \in DOMAIN disk' : p \notin DOMAIN disk \/ disk'[p] # disk[p]}

\* the step is _on_download_succeeded handling the bytes of a fetch of key
\* that decode
SuccessHandlerFor(key) ==
    /\ channel # <<>>
    /\ Head(channel).signal = "succeeded"
    /\ Head(channel).key = key
    /\ channel' = Tail(channel)
    /\ Truthy(icon_from_bytes(Head(channel).arg))
    /\ last'.op = "on_download_succeeded"

\* a step that writes a file is the success handler of the key of the
\* file, with bytes that decode; the file of the key gets those bytes as
\* they came, and nothing but a temporary file of the key is written
\* besides
WritesRawFetchedBytes ==
    \A p \in WrittenFiles :
        \E key \in Keys :
            /\ SuccessHandlerFor(key)
            /\ p \in {cache_path(key), tmp_path(key)}
            /\ p = cache_path(key) => disk'[p] = Head(channel).arg

\* the file of a key holds the image of the key or what the directory held
\* when the cache was constructed
FilesAreFetchedOrOld ==
    \A key \in Keys :
        cache_path(key) \in DOMAIN disk =>
            \/ disk[cache_path(key)] = ImageOf(key)
            \/ \E old \in InitDisks :
                  /\ cache_path(key) \in DOMAIN old
                  /\ old[cache_path(key)] = disk[cache_path(key)]

\* C33: every file the cache writes for a key holds the raw bytes of a
\* fetch for that key that succeeded and decoded; bytes that do not decode
\* are never written, and files are written by the success handler only,
\* never by request_icon, get_icon or the failure handler.
C33_DiskHoldsRawFetchedBytes ==
    []FilesAreFetchedOrOld /\ [][WritesRawFetchedBytes]_vars

\* the damaged file of a key has been replaced by the bytes of its fetch,
\* the only fetch so far: the other files are those of earlier sessions
C33_Witness ==
    /\ last.op = "on_download_succeeded"
    /\ last.key = "dm:81:a1"
    /\ cache_path("dm:81:a1") \in DOMAIN disk
    /\ disk[cache_path("dm:81:a1")] = ImageOf("dm:81:a1")
    /\ cache_path("guild:7:b2") \in DOMAIN disk
    /\ submitted = 1

(* ---------------- C35: one conversation load at a time ---------------- *)

\* a step in which on_connect starts a ConversationWorker
ConnectStarts ==
    session'.conversation = "running" /\ session.conversation # "running"

\* what on_connect clears: the tree with the check states of its items,
\* the icon bindings and the selection
Cleared ==
    <<in_tree, item_icon, icon_items, session.has_roots, session.leaves,
      session.states, session.checked, session.selected>>

\* a click on Connect while the conversation worker runs or
\* _is_export_running is set changes nothing
RefusedConnectKeepsAll ==
    (/\ session.connect_enabled
     /\ Idle
     /\ IsRunning(session.conversation) \/ session.is_export_running)
    => \A token \in Tokens :
          ~ENABLED (connect_clicked(token) /\ <<Cleared, session>>' # <<Cleared, session>>)

\* C35: on_connect starts a conversation load only when no conversation
\* worker is running and no export is running, that is _is_export_running
\* is False, which is what on_connect tests; in those two cases it returns
\* without clearing the tree, the icon bindings or the selection, so at most
\* one ConversationWorker runs at a time.
C35_OneConversationLoad ==
    /\ [](RefusedConnectKeepsAll /\ RunningWorkers({"conversation"}) <= 1)
    /\ [][ConnectStarts => /\ ~IsRunning(session.conversation)
                           /\ ~session.is_export_running]_allvars

\* C35 witness: the Connect button is enabled, the conversation worker is
\* still running and an export is running as well; the tree holds items,
\* one of them bound to an icon key and one checked, and on_connect leaves
\* them alone.
C35_Witness ==
    /\ session.connect_enabled
    /\ Idle
    /\ IsRunning(session.conversation)
    /\ session.is_export_running
    /\ in_tree # {}
    /\ icon_items # EmptyFn
    /\ session.checked # {}
    /\ session.selected > 0

(* ------------------------- ConversationWorker ------------------------- *)

\* what a call of the API client does: it returns, raises DiscordAPIError or
\* raises another exception
ApiOutcomes == {"ok", "DiscordAPIError", "Exception"}

\* str(exc) of the exceptions: the texts of the exceptions of the client,
\* and the one of the KeyError of guild["id"]
ErrorText(exc) ==
    CASE exc = "DiscordAPIError" -> "Missing Access"
      [] exc = "KeyError" -> "'id'"
      [] OTHER -> "boom"

\* the lists get_dms returns: DMs without a recipients entry, without a
\* recipient, with one recipient, with None for the recipients
RawDmLists ==
    {<<>>,
     <<[id |-> "d1", name |-> "one"]>>,
     <<[id |-> "d3", recipients |-> PyNone]>>,
     <<[id |-> "d1", recipients |-> <<>>],
       [id |-> "d2", name |-> PyNone,
        recipients |-> <<[id |-> "81", avatar |-> "a1", discriminator |-> "0"]>>]>>}

\* the guilds get_guilds returns: with a name and an icon, without them, and
\* one without an id
RawGuilds ==
    {[id |-> "7", name |-> "G", icon |-> "b2"], [id |-> "8"], [name |-> "X"]}

\* the channels get_guild_channels returns: a text channel, a category
\* without a position, a voice channel
RawChannels ==
    {[id |-> "a", type |-> 0, position |-> 1],
     [id |-> "b", type |-> 4],
     [id |-> "d", type |-> 2, position |-> 0]}

ChannelLists == SeqsUpTo(RawChannels, MaxChannels)

\* value or []: for a list or None
OrEmptyList(value) == IF ToString(value) = ToString(PyNone) THEN <<>> ELSE value

\* the body of the loop over raw_dms: the entry of one DM
dm_entry(dm) ==
    LET recipients == OrEmptyList(Get(dm, "recipients", PyNone))
        first_recipient == IF recipients # <<>> THEN recipients[1]
                           ELSE [x \in {} |-> PyNone]
    IN [id |-> Get(dm, "id", PyNone),
        name |-> Get(dm, "name", PyNone),
        recipients |-> recipients,
        icon_user_id |-> Get(first_recipient, "id", PyNone),
        icon_avatar |-> Get(first_recipient, "avatar", PyNone),
        icon_discriminator |-> Get(first_recipient, "discriminator", PyNone)]

\* [ch for ch in channels if ch.get("type") in (0, 4, 5)]
visible_channels(channels) ==
    SelectSeq(channels, LAMBDA ch : Get(ch, "type", PyNone) \in {0, 4, 5})

\* the entry of a guild in the payload
guild_entry(guild, channels, channels_error) ==
    [id |-> guild.id,
     name |-> Get(guild, "name", "Unknown Server"),
     icon_hash |-> Get(guild, "icon", PyNone),
     channels |-> sorted_by_position(visible_channels(channels)),
     channels_error |-> channels_error]

\* an exception leaves the try block of run()
Raise(w, exc) == [w EXCEPT !.pc = "except", !.exc = exc]

\* ConversationWorker.run is entered: client = None
run_starts ==
    /\ worker = NotStarted
    /\ worker' = [pc |-> "client", client |-> "none", emitted |-> <<>>,
                  exc |-> "none", me |-> PyNone, raw_dms |-> <<>>,
                  guilds |-> <<>>, dm_entries |-> <<>>, guild_entries |-> <<>>,
                  channels |-> <<>>, channels_error |-> PyNone]

\* client = DiscordClient(self._token)
new_client(outcome) ==
    /\ worker.pc = "client"
    /\ worker' = IF outcome = "ok"
                 THEN [worker EXCEPT !.client = "open", !.pc = "validate_token"]
                 ELSE Raise(worker, outcome)

\* me = client.validate_token()
validate_token(outcome) ==
    /\ worker.pc = "validate_token"
    /\ worker' = IF outcome = "ok"
                 THEN [worker EXCEPT !.me = "me", !.pc = "get_dms"]
                 ELSE Raise(worker, outcome)

\* raw_dms = client.get_dms()
get_dms(outcome, dms) ==
    /\ worker.pc = "get_dms"
    /\ worker' = IF outcome = "ok"
                 THEN [worker EXCEPT !.raw_dms = dms, !.pc = "get_guilds"]
                 ELSE Raise(worker, outcome)

\* guilds = client.get_guilds(), and the loop that builds dm_entries
get_guilds(outcome, guilds) ==
    /\ worker.pc = "get_guilds"
    /\ worker' =
          IF outcome = "ok"
          THEN [worker EXCEPT
                   !.guilds = guilds,
                   !.dm_entries = [i \in 1..Len(worker.raw_dms) |->
                                      dm_entry(worker.raw_dms[i])],
                   !.pc = "guild_loop"]
          ELSE Raise(worker, outcome)

\* a round of the loop over guilds is entered: channels_error = None, before
\* guild["id"] is read and get_guild_channels is called
round_starts(w) == [w EXCEPT !.channels_error = PyNone]

\* one round of the loop over guilds in which DiscordAPIError is not caught
guild_round_uncaught(outcome, channels) ==
    /\ worker.pc = "guild_loop"
    /\ worker.guilds # <<>>
    /\ LET guild == Head(worker.guilds)
       IN worker' =
             IF "id" \notin DOMAIN guild
             THEN Raise(round_starts(worker), "KeyError")
             ELSE IF outcome = "ok"
             THEN [worker EXCEPT
                      !.channels = channels, !.channels_error = PyNone,
                      !.guild_entries = Append(@, guild_entry(guild, channels, PyNone)),
                      !.guilds = Tail(@)]
             ELSE Raise(round_starts(worker), outcome)

\* one round of the loop over guilds: channels_error = None, then
\* get_guild_channels(guild["id"]) with DiscordAPIError caught, and the entry
\* of the guild; an exception that leaves the round leaves channels as the
\* round before bound it
guild_round(outcome, channels) ==
    /\ worker.pc = "guild_loop"
    /\ worker.guilds # <<>>
    /\ LET guild == Head(worker.guilds)
           got == IF outcome = "ok" THEN channels ELSE <<>>
           error == IF outcome = "ok" THEN PyNone ELSE ErrorText(outcome)
       IN worker' =
             IF "id" \notin DOMAIN guild
             THEN Raise(round_starts(worker), "KeyError")
             ELSE IF outcome \in {"ok", "DiscordAPIError"}
             THEN [worker EXCEPT
                      !.channels = got, !.channels_error = error,
                      !.guild_entries = Append(@, guild_entry(guild, got, error)),
                      !.guilds = Tail(@)]
             ELSE Raise(round_starts(worker), outcome)

\* payload = {...}; self.result.emit(payload)
emit_result ==
    /\ worker.pc = "guild_loop"
    /\ worker.guilds = <<>>
    /\ worker' = [worker EXCEPT
          !.emitted = Append(@, <<"result", [me |-> worker.me,
                                              dms |-> worker.dm_entries,
                                              guilds |-> worker.guild_entries]>>),
          !.pc = "finally"]

\* the except clauses in which only DiscordAPIError is reported
handle_exception_api_only ==
    /\ worker.pc = "except"
    /\ worker' = [worker EXCEPT
          !.emitted = IF worker.exc = "DiscordAPIError"
                      THEN Append(@, <<"error", ErrorText(worker.exc)>>) ELSE @,
          !.pc = "finally"]

\* the except clauses: self.error.emit(str(exc)) for DiscordAPIError,
\* self.error.emit(f"Unexpected error: {exc}") for any other Exception
handle_exception ==
    /\ worker.pc = "except"
    /\ worker' = [worker EXCEPT
          !.emitted = Append(@, <<"error",
                         IF worker.exc = "DiscordAPIError"
                         THEN ErrorText(worker.exc)
                         ELSE "Unexpected error: " \o ErrorText(worker.exc)>>),
          !.pc = "finally"]

\* finally: if client: client.close()
finally_close ==
    /\ worker.pc = "finally"
    /\ worker' = [worker EXCEPT
          !.client = IF @ = "open" THEN "closed" ELSE @,
          !.pc = "done"]

\* one run of a ConversationWorker, with every outcome of every call
WorkerNext ==
    \/ /\ run_starts
       /\ UNCHANGED <<vars, winvars, resolver, session, placeholder>>
    \/ /\ \E outcome \in ApiOutcomes : new_client(outcome)
       /\ UNCHANGED <<vars, winvars, resolver, session, placeholder>>
    \/ /\ \E outcome \in ApiOutcomes : validate_token(outcome)
       /\ UNCHANGED <<vars, winvars, resolver, session, placeholder>>
    \/ /\ \E outcome \in ApiOutcomes : \E dms \in RawDmLists : get_dms(outcome, dms)
       /\ UNCHANGED <<vars, winvars, resolver, session, placeholder>>
    \/ /\ \E outcome \in ApiOutcomes : \E guilds \in SeqsUpTo(RawGuilds, MaxGuilds) :
             get_guilds(outcome, guilds)
       /\ UNCHANGED <<vars, winvars, resolver, session, placeholder>>
    \/ /\ \E outcome \in ApiOutcomes : \E channels \in ChannelLists :
             guild_round(outcome, channels)
       /\ UNCHANGED <<vars, winvars, resolver, session, placeholder>>
    \/ /\ emit_result
       /\ UNCHANGED <<vars, winvars, resolver, session, placeholder>>
    \/ /\ handle_exception
       /\ UNCHANGED <<vars, winvars, resolver, session, placeholder>>
    \/ /\ finally_close
       /\ UNCHANGED <<vars, winvars, resolver, session, placeholder>>

WorkerSpec == Init /\ [][WorkerNext]_allvars

(* ------------- C36: one signal per run, client closed ----------------- *)

Started == worker # NotStarted

\* the names of the result and error signals emitted so far by the run
EmittedNames == [i \in 1..Len(worker.emitted) |-> worker.emitted[i][1]]

\* the client exists from the statement after its construction on
ClientCreated ==
    worker.pc \in {"validate_token", "get_dms", "get_guilds", "guild_loop"}
        => worker.client = "open"

\* C36: each ConversationWorker run emits exactly one of the result signal
\* or the error signal, never both and never neither (at most one while it
\* runs, one when it has ended), and closes the API client on every exit
\* path on which the client was created.
C36_OneSignalAndClientClosed ==
    Started =>
        /\ Len(worker.emitted) <= 1
        /\ ClientCreated
        /\ worker.pc = "done" =>
              /\ EmittedNames \in {<<"result">>, <<"error">>}
              /\ worker.client # "open"
              /\ worker.client = "none" => worker.me = PyNone

\* C36 witness: a run has ended after get_guild_channels raised an
\* exception other than DiscordAPIError in the second round of the loop,
\* the round after one whose DiscordAPIError was caught (channels_error, set
\* by the first round, is None again): it has emitted error only, and the
\* client it had created is closed.
C36_Witness ==
    /\ Started
    /\ worker.pc = "done"
    /\ worker.exc = "Exception"
    /\ Len(worker.guild_entries) = 1
    /\ worker.guild_entries[1].channels_error = ErrorText("DiscordAPIError")
    /\ worker.channels_error = PyNone
    /\ worker.guilds # <<>>
    /\ "id" \in DOMAIN Head(worker.guilds)
    /\ EmittedNames = <<"error">>
    /\ worker.client = "closed"

(* ------------- C37: a guild whose channels fail to load --------------- *)

\* how often a channel occurs in a list
Occurrences(channels, c) ==
    Cardinality({i \in 1..Len(channels) : channels[i] = c})

\* reported is the channels of types 0, 4 and 5 of the response, each as
\* often as in the response, in the order of their positions
RestrictedAndOrdered(reported, response) ==
    /\ \A i \in 1..Len(reported) : reported[i].type \in {0, 4, 5}
    /\ \A i, j \in 1..Len(reported) :
          i < j => PositionOf(reported[i]) <= PositionOf(reported[j])
    /\ \A c \in RawChannels :
          Occurrences(reported, c) =
              IF c.type \in {0, 4, 5} THEN Occurrences(response, c) ELSE 0

InGuildLoop == Started /\ worker.pc = "guild_loop"

\* get_guild_channels raising DiscordAPIError for the next guild leaves the
\* run in the loop, with the guild reported last: no channel, and
\* channels_error set
FailureIsReported ==
    (InGuildLoop /\ worker.guilds # <<>> /\ "id" \in DOMAIN Head(worker.guilds))
    => ENABLED (/\ guild_round("DiscordAPIError", <<>>)
                /\ worker'.pc = "guild_loop"
                /\ Len(worker'.guild_entries) = Len(worker.guild_entries) + 1
                /\ LET entry == worker'.guild_entries[Len(worker'.guild_entries)]
                   IN /\ entry.id = Head(worker.guilds).id
                      /\ entry.channels = <<>>
                      /\ entry.channels_error = ErrorText("DiscordAPIError"))

\* the entry of the round that has just ended reports the channels of the
\* response of that round
LastRoundReported ==
    (InGuildLoop /\ worker.guild_entries # <<>>)
    => LET entry == worker.guild_entries[Len(worker.guild_entries)]
       IN /\ entry.channels_error = worker.channels_error
          /\ RestrictedAndOrdered(entry.channels, worker.channels)

\* a round of the loop adds the entry of its guild and leaves the entries
\* of the other guilds as they are
RoundKeepsOthers ==
    (InGuildLoop /\ worker'.pc = "guild_loop" /\ worker' # worker)
    => /\ worker'.guilds = Tail(worker.guilds)
       /\ Len(worker'.guild_entries) = Len(worker.guild_entries) + 1
       /\ SubSeq(worker'.guild_entries, 1, Len(worker.guild_entries))
             = worker.guild_entries
       /\ worker'.guild_entries[Len(worker'.guild_entries)].id
             = Head(worker.guilds).id

\* the run ends with error only after an exception has left the try block,
\* and the payload of result holds the entries of the loop
EndsWithResult ==
    (Started /\ worker.pc = "done")
    => IF worker.exc = "none"
       THEN /\ EmittedNames = <<"result">>
            /\ worker.guilds = <<>>
            /\ worker.emitted[1][2].guilds = worker.guild_entries
       ELSE EmittedNames = <<"error">>

\* C37: a failure to load the channels of one guild (get_guild_channels
\* raising DiscordAPIError) does not abort the conversation load: that guild
\* is still reported, with an empty channel list and channels_error set,
\* every other guild keeps its own channels, and the run still ends by
\* emitting result; reported channels are restricted to types 0, 4 and 5
\* and ordered by position.
C37_FailedGuildIsReported ==
    /\ [](FailureIsReported /\ LastRoundReported /\ EndsWithResult)
    /\ [][RoundKeepsOthers]_allvars

\* C37 witness: a run has ended with result after two rounds: the channels
\* of guild 7 failed to load, and guild 8, whose response began with the
\* text channel at position 1 and held the category without a position
\* after it, reports the category first and the text channel second.
C37_Witness ==
    /\ Started
    /\ worker.pc = "done"
    /\ EmittedNames = <<"result">>
    /\ Len(worker.guild_entries) = 2
    /\ worker.guild_entries[1].id = "7"
    /\ worker.guild_entries[1].channels = <<>>
    /\ worker.guild_entries[1].channels_error # PyNone
    /\ worker.guild_entries[2].id = "8"
    /\ worker.guild_entries[2].channels_error = PyNone
    /\ Len(worker.channels) > 1
    /\ worker.channels[1].id = "a"
    /\ Len(worker.guild_entries[2].channels) = 2
    /\ worker.guild_entries[2].channels[1].id = "b"
    /\ worker.emitted[1][2].guilds = worker.guild_entries

(* ------------------------- placeholder icons -------------------------- *)

\* the names the module icon_cache binds that the placeholder code uses:
\* the imports from PySide6.QtCore and PySide6.QtGui
ModuleNames == {"Qt", "QColor", "QFont", "QIcon", "QPainter", "QPixmap"}

\* placeholder_dm_icon, placeholder_guild_icon, placeholder_channel_icon
\* and placeholder_category_icon: the function each calls and its arguments
PlaceholderCtors ==
    [placeholder_dm_icon |-> [shape |-> "round", bg_hex |-> "#2563eb", text |-> "D"],
     placeholder_guild_icon |-> [shape |-> "square", bg_hex |-> "#7c3aed", text |-> "S"],
     placeholder_channel_icon |-> [shape |-> "square", bg_hex |-> "#334155", text |-> "#"],
     placeholder_category_icon |-> [shape |-> "square", bg_hex |-> "#475569", text |-> "C"]]

PlaceholderSizes == (1..MaxSize) \cup {DEFAULT_ICON_SIZE}

\* the statements of _create_round_placeholder and
\* _create_square_placeholder, each with the global names it looks up
Statements(shape) ==
    <<[do |-> "QPixmap", uses |-> {"QPixmap"}],
      [do |-> "fill", uses |-> {"QColor"}],
      [do |-> "QPainter", uses |-> {"QPainter"}],
      [do |-> "setRenderHint", uses |-> {"QPainter"}],
      [do |-> "setPen(NoPen)", uses |-> {"Qt"}],
      [do |-> "setBrush", uses |-> {"QColor"}],
      [do |-> IF shape = "round" THEN "drawEllipse" ELSE "drawRoundedRect",
       uses |-> {}],
      [do |-> "QFont", uses |-> {"QFont"}],
      [do |-> "setBold", uses |-> {}],
      [do |-> "setFont", uses |-> {}],
      [do |-> "setPen(QPen)", uses |-> {"QPen", "QColor"}],
      [do |-> "drawText", uses |-> {"Qt"}],
      [do |-> "end", uses |-> {}],
      [do |-> "return QIcon", uses |-> {"QIcon"}]>>

Max(a, b) == IF a >= b THEN a ELSE b

\* what a statement does to the locals of the call
Effect(p, do) ==
    CASE do = "QPixmap" -> [p EXCEPT !.pix = <<>>]
      [] do = "fill" -> [p EXCEPT !.pix = <<"transparent">>]
      [] do = "setPen(NoPen)" -> [p EXCEPT !.pen = "NoPen"]
      [] do = "setBrush" -> [p EXCEPT !.brush = p.bg_hex]
      [] do \in {"drawEllipse", "drawRoundedRect"} ->
            [p EXCEPT !.pix = Append(@, <<do, p.brush, p.size>>)]
      [] do = "QFont" -> [p EXCEPT !.font = Max(7, p.size \div 2)]
      [] do = "setPen(QPen)" -> [p EXCEPT !.pen = "#f9fafb"]
      [] do = "drawText" -> [p EXCEPT !.pix = Append(@, <<p.text, p.pen, p.font>>)]
      [] do = "return QIcon" ->
            [p EXCEPT !.returned = [pixmap |-> "placeholder:" \o p.text,
                                    size |-> p.size]]
      [] OTHER -> p

\* the locals of a call of a placeholder constructor before its first
\* statement; init tells which statement of MainWindow.__init__ made the
\* call, and dm_fallback_icon is the attribute that __init__ has bound
Frame(ctor, size) ==
    [pc |-> "body", ctor |-> ctor, next |-> 1, size |-> size,
     shape |-> PlaceholderCtors[ctor].shape,
     bg_hex |-> PlaceholderCtors[ctor].bg_hex,
     text |-> PlaceholderCtors[ctor].text,
     pix |-> <<>>, pen |-> "black", brush |-> "none", font |-> 0,
     returned |-> NoneIcon, exc |-> "none",
     init |-> "none", dm_fallback_icon |-> NoneIcon]

\* a placeholder constructor is called with a size
placeholder_call(ctor, size) ==
    /\ placeholder = NotCalled
    /\ placeholder' = Frame(ctor, size)
    /\ UNCHANGED <<vars, winvars, resolver, session, worker>>

\* MainWindow.__init__ comes to
\*   self._dm_fallback_icon = placeholder_dm_icon()
\*   self._guild_fallback_icon = placeholder_guild_icon()
\* and calls the first constructor with the default size; the second call
\* follows when the first has returned (statement), and an exception of
\* either leaves __init__
main_window_init ==
    /\ placeholder = NotCalled
    /\ placeholder' =
          [Frame("placeholder_dm_icon", DEFAULT_ICON_SIZE) EXCEPT !.init = "dm"]
    /\ UNCHANGED <<vars, winvars, resolver, session, worker>>

\* the next statement of the body runs: it raises NameError when it looks
\* up a name the module does not bind, and the last one returns the icon
statement ==
    /\ placeholder # NotCalled
    /\ placeholder.pc = "body"
    /\ LET st == Statements(placeholder.shape)[placeholder.next]
           after == Effect(placeholder, st.do)
       IN placeholder' =
             IF ~(st.uses \subseteq ModuleNames)
             THEN [placeholder EXCEPT !.pc = "raised", !.exc = "NameError"]
             ELSE IF placeholder.next < Len(Statements(placeholder.shape))
             THEN [after EXCEPT !.next = @ + 1]
             ELSE IF placeholder.init = "dm"
             THEN [Frame("placeholder_guild_icon", DEFAULT_ICON_SIZE) EXCEPT
                      !.init = "guild", !.dm_fallback_icon = after.returned]
             ELSE [after EXCEPT !.pc = "returned"]
    /\ UNCHANGED <<vars, winvars, resolver, session, worker>>

PlaceholderNext ==
    \/ \E ctor \in DOMAIN PlaceholderCtors : \E size \in PlaceholderSizes :
          placeholder_call(ctor, size)
    \/ main_window_init
    \/ statement

PlaceholderSpec == Init /\ [][PlaceholderNext]_allvars

(* ------------- C38: the placeholder constructors never raise ---------- *)

\* C38: the placeholder icon constructors (placeholder_dm_icon,
\* placeholder_guild_icon, placeholder_channel_icon,
\* placeholder_category_icon) return an icon and never raise for any size
\* >= 1, so constructing the main window's fallback icons cannot fail.
\* Stated as: no call of a constructor is ever in the state of having
\* raised.
C38_PlaceholdersNeverRaise ==
    placeholder # NotCalled => placeholder.pc # "raised"

====
